---- MODULE Spec2Model ----
(***************************************************************************)
(* Model of the parkour capture pipeline: the binary encoder               *)
(* (process_parkour_data.js, processFile), the binary file it writes and   *)
(* the viewer's decoder (data-normalizer/viewer.js).                        *)
(*                                                                         *)
(* Number representation.  The capture mod serialises every double and     *)
(* float with three decimals (DoubleSerializer / FloatSerializer), so the  *)
(* numbers of the input JSON are modelled as integers counting             *)
(* thousandths: a distance of 1.234 blocks is 1234, a yaw of -725.5        *)
(* degrees is -725500.  Values the encoder computes in double precision    *)
(* (the proprioceptive vector) are exact rationals [n, d]; the narrowing   *)
(* to IEEE-754 single precision done by writeFloatBE is modelled bit by    *)
(* bit, and a decoded float is the record [s, e, m] of its sign, biased    *)
(* exponent and 23-bit fraction.                                           *)
(***************************************************************************)
EXTENDS Integers, Sequences, FiniteSets, TLC

----------------------------------------------------------------------------
(* Program constants *)

\* Number of ticks to stack for a state sequence
K == 4
\* MAX_VELOCITY = 1.0, in thousandths
MAX_VELOCITY == 1000
\* MAX_REL_HEIGHT = 10.0, in thousandths
MAX_REL_HEIGHT == 10000
MAX_RAYCAST_DISTANCE_UNITS == 255
\* MAX_RAYCAST_DISTANCE_BLOCKS = 25.5, in thousandths
MAX_RAYCAST_DISTANCE_BLOCKS == 25500
\* "PKDSEQ" in ASCII
MAGIC_STRING == <<80, 75, 68, 83, 69, 81>>
FORMAT_VERSION == 1
EXPECTED_VERSION == 1
HEADER_SIZE == 20

----------------------------------------------------------------------------
(* Bounds of the model *)

\* longest tick sequence of an input session
MaxTicks == 6
\* widest and tallest vision grid of an input session
MaxW == 2
MaxH == 2

----------------------------------------------------------------------------
(* Arithmetic helpers *)

Abs(x) == IF x < 0 THEN -x ELSE x

Min(a, b) == IF a < b THEN a ELSE b

Max(a, b) == IF a > b THEN a ELSE b

RECURSIVE Pow2(_)
Pow2(n) == IF n <= 0 THEN 1 ELSE 2 * Pow2(n - 1)

RECURSIVE Gcd(_, _)
Gcd(a, b) == IF b = 0 THEN a ELSE Gcd(b, a % b)

\* mutant of clamp: the upper limit is not applied
clampNoUpper(value, lo, hi) == Max(lo, value)

\* function clamp(value, min, max) { return Math.max(min, Math.min(value, max)); }
clamp(value, lo, hi) == Max(lo, Min(value, hi))

\* JavaScript's % on numbers: the result takes the sign of the dividend
JsRem(a, b) == IF a >= 0 THEN a % b ELSE -((-a) % b)

\* mutant of normalizeAngle: one adjustment by 360 degrees, without the %
normalizeAngleOneStep(angle) ==
    IF angle > 180000 THEN angle - 360000
    ELSE IF angle <= -180000 THEN angle + 360000
    ELSE angle

\* normalizeAngle, on thousandths of a degree
normalizeAngle(angle) ==
    LET normalized == JsRem(angle, 360000)
    IN  IF normalized > 180000 THEN normalized - 360000
        ELSE IF normalized <= -180000 THEN normalized + 360000
        ELSE normalized

\* mutant of RoundTenths: Math.floor in place of Math.round
RoundTenthsFloor(distBlocks) == distBlocks \div 100

\* Math.round(distBlocks * 10) for a non-negative distance in thousandths:
\* Math.round rounds halves towards +Infinity
RoundTenths(distBlocks) == (distBlocks + 50) \div 100

\* the byte stored for one distance cell
DistByte(d) ==
    LET distBlocks == clamp(d, 0, MAX_RAYCAST_DISTANCE_BLOCKS)
        distUnits  == RoundTenths(distBlocks)
    IN  clamp(distUnits, 0, MAX_RAYCAST_DISTANCE_UNITS)

----------------------------------------------------------------------------
(* IEEE-754 single precision, as Buffer.writeFloatBE / readFloatBE use it *)

\* a rational number n / d, d > 0: a value the encoder holds in a double
Rat(n, d) == [n |-> n, d |-> d]

\* scale a / d into [1, 2): returns [a, d, e] with d <= a < 2d and
\* (original a / d) = (a / d) * 2^e
RECURSIVE Normalize(_, _, _)
Normalize(a, d, e) ==
    IF a < d THEN Normalize(2 * a, d, e - 1)
    ELSE IF a >= 2 * d THEN Normalize(a, 2 * d, e + 1)
    ELSE [a |-> a, d |-> d, e |-> e]

\* k further binary digits of r / d (r < d): returns the digits m and the
\* remainder r left after them
RECURSIVE FracBits(_, _, _, _)
FracBits(r, d, k, m) ==
    IF k = 0 THEN [m |-> m, r |-> r]
    ELSE LET t == 2 * r
         IN  IF t >= d THEN FracBits(t - d, d, k - 1, 2 * m + 1)
             ELSE FracBits(t, d, k - 1, 2 * m)

\* the double-to-single narrowing of writeFloatBE (round to nearest, ties to
\* even).  The encoder only stores values of magnitude 0 or in
\* [1/180000, 1], so the subnormal and overflow ranges are not reached.
Float32(x) ==
    IF x.n = 0 THEN [s |-> 0, e |-> 0, m |-> 0]
    ELSE LET nrm  == Normalize(Abs(x.n), x.d, 0)
             frac == FracBits(nrm.a - nrm.d, nrm.d, 23, 0)
             up   == \/ 2 * frac.r > nrm.d
                     \/ 2 * frac.r = nrm.d /\ frac.m % 2 = 1
             m1   == IF up THEN frac.m + 1 ELSE frac.m
             carry == m1 = Pow2(23)
         IN  [s |-> IF x.n < 0 THEN 1 ELSE 0,
              e |-> nrm.e + 127 + (IF carry THEN 1 ELSE 0),
              m |-> IF carry THEN 0 ELSE m1]

\* the four big-endian bytes of a single
FloatBytes(f) ==
    << f.s * 128 + f.e \div 2,
       (f.e % 2) * 128 + f.m \div 65536,
       (f.m \div 256) % 256,
       f.m % 256 >>

\* buf.writeFloatBE(value): the bytes appended for one double
writeFloatBE(x) == FloatBytes(Float32(x))

\* the single held by four big-endian bytes
FloatOfBytes(b0, b1, b2, b3) ==
    [s |-> b0 \div 128,
     e |-> (b0 % 128) * 2 + b1 \div 128,
     m |-> (b1 % 128) * 65536 + b2 * 256 + b3]

\* strip the trailing zero bits of m: returns [m, tz]
RECURSIVE OddPart(_, _)
OddPart(m, tz) ==
    IF m % 2 = 0 /\ m > 0 THEN OddPart(m \div 2, tz + 1) ELSE [m |-> m, tz |-> tz]

\* the single f and the rational x are the same number
FloatIsRat(f, x) ==
    IF f.e = 0 /\ f.m = 0 THEN x.n = 0
    ELSE IF f.e = 0 \/ f.e = 255 \/ x.n = 0 THEN FALSE
    ELSE LET odd == OddPart(Pow2(23) + f.m, 0)
             pw  == 150 - f.e - odd.tz       \* f = odd.m / 2^pw
             g   == Gcd(Abs(x.n), x.d)
             xn  == Abs(x.n) \div g
             xd  == x.d \div g
         IN  /\ (f.s = 1) <=> (x.n < 0)
             /\ IF pw >= 0
                THEN pw <= 30 /\ xd = Pow2(pw) /\ xn = odd.m
                ELSE /\ -pw <= 30 /\ xd = 1
                     /\ xn % Pow2(-pw) = 0 /\ xn \div Pow2(-pw) = odd.m

\* floor(|x| * 2^24) for a rational of magnitude at most 1, by long division
RECURSIVE ScaleBits(_, _, _, _)
ScaleBits(q, r, d, k) ==
    IF k = 0 THEN q
    ELSE LET t == 2 * r
         IN  IF t >= d THEN ScaleBits(2 * q + 1, t - d, d, k - 1)
             ELSE ScaleBits(2 * q, t, d, k - 1)

RatFixed24(x) == ScaleBits(Abs(x.n) \div x.d, Abs(x.n) % x.d, x.d, 24)

\* floor(|f| * 2^24) for a single of magnitude at most 1
FloatFixed24(f) ==
    IF f.e = 0 THEN 0
    ELSE IF f.e >= 126 THEN (Pow2(23) + f.m) * Pow2(f.e - 126)
    ELSE IF 126 - f.e > 30 THEN 0
    ELSE (Pow2(23) + f.m) \div Pow2(126 - f.e)

\* |f - x| < 2^-23 (both of magnitude at most 1) and the signs agree
FloatNearRat(f, x) ==
    /\ f.e <= 127
    /\ Abs(FloatFixed24(f) - RatFixed24(x)) <= 1
    /\ (f.e # 0 /\ x.n # 0) => ((f.s = 1) <=> (x.n < 0))


----------------------------------------------------------------------------
(* Input sessions: the JSON the capture mod saves, { ty, tfy, d: ticks } *)

\* data.blocksByStateId[state]?.name.  The table belongs to the minecraft-data
\* package; a few block states stand for it here, and every other state id
\* has no entry.
blockNameOfState(state) ==
    CASE state = 0 -> "air"
      [] state = 1 -> "stone"
      [] state = 2 -> "ladder"
      [] state = 3 -> "vine"
      [] state = 4 -> "weeping_vines_plant"
      [] state = 5 -> "water"
      [] state = 6 -> "lava"
      [] state = 7 -> "slime_block"
      [] state = 8 -> "cobweb"
      [] state = 9 -> "soul_sand"
      [] state = 10 -> "packed_ice"
      [] state = 11 -> "blue_ice"
      [] state = 12 -> "honey_block"
      [] OTHER -> "undefined"

\* BlockTypeMap[blockName] || States.DEFAULT
getBlockType(state) ==
    LET blockName == blockNameOfState(state)
    IN  CASE blockName = "ladder" -> 1
          [] blockName \in {"vine", "twisting_vines", "twisting_vines_plant",
                            "weeping_vines", "weeping_vines_plant"} -> 2
          [] blockName = "water" -> 3
          [] blockName = "lava" -> 4
          [] blockName = "slime_block" -> 5
          [] blockName = "cobweb" -> 6
          [] blockName = "soul_sand" -> 7
          [] blockName \in {"ice", "packed_ice"} -> 8
          [] blockName = "blue_ice" -> 9
          [] blockName = "honey_block" -> 10
          [] OTHER -> 0

\* distances (thousandths of a block) and block states the sample grids hold
DistPalette == <<0, 50, 1234, 25500, 64000, 100000, 7777, 25449, -1000, 12349>>
StatePalette == <<0, 1, 5, 2, 4, 8, 999, 12, 10, 6, 11>>

\* an h x w grid whose cell (r, c) takes the palette entry seed + r*w + c
Grid(palette, seed, w, h) ==
    [r \in 1..h |-> [c \in 1..w |->
        palette[((seed + (r - 1) * w + (c - 1)) % Len(palette)) + 1]]]

\* the scalar fields of four sample ticks (ParkourTickData without grids)
TickScalars ==
    << [f |-> TRUE, l |-> FALSE, r |-> FALSE, b |-> FALSE, j |-> TRUE,
        n |-> FALSE, s |-> FALSE, y |-> 0, vx |-> 100, vy |-> -78, vz |-> 0,
        g |-> TRUE, ch |-> FALSE, cv |-> TRUE, py |-> 64000],
       [f |-> FALSE, l |-> FALSE, r |-> FALSE, b |-> FALSE, j |-> FALSE,
        n |-> FALSE, s |-> FALSE, y |-> 190000, vx |-> 1500, vy |-> -3000,
        vz |-> 500, g |-> FALSE, ch |-> TRUE, cv |-> FALSE, py |-> 75500],
       [f |-> TRUE, l |-> TRUE, r |-> TRUE, b |-> TRUE, j |-> TRUE,
        n |-> TRUE, s |-> TRUE, y |-> -725500, vx |-> -250, vy |-> 0,
        vz |-> -1000, g |-> TRUE, ch |-> TRUE, cv |-> TRUE, py |-> 58123],
       [f |-> FALSE, l |-> TRUE, r |-> FALSE, b |-> FALSE, j |-> FALSE,
        n |-> TRUE, s |-> FALSE, y |-> 180000, vx |-> 1, vy |-> 333,
        vz |-> -999, g |-> FALSE, ch |-> FALSE, cv |-> FALSE, py |-> 60000] >>

\* the ways one tick's grids can differ from the session's
OddKinds == {"wide", "tall", "vb"}

\* tick number i (from 0) of a session: scalars and grid contents rotate
\* with i and the pattern p; the tick at index odd has other dimensions
MakeTick(i, w, h, p, odd, kind) ==
    LET sc  == TickScalars[((i + p) % Len(TickScalars)) + 1]
        isOdd == i = odd
        dw  == IF isOdd /\ kind = "wide" THEN w + 1 ELSE w
        dh  == IF isOdd /\ kind = "tall" THEN h + 1 ELSE h
        bw  == IF isOdd /\ kind = "vb" THEN w + 1 ELSE dw
    IN  [f |-> sc.f, l |-> sc.l, r |-> sc.r, b |-> sc.b, j |-> sc.j,
         n |-> sc.n, s |-> sc.s, y |-> sc.y, vx |-> sc.vx, vy |-> sc.vy,
         vz |-> sc.vz, g |-> sc.g, ch |-> sc.ch, cv |-> sc.cv, py |-> sc.py,
         vd |-> Grid(DistPalette, 2 * i + p, dw, dh),
         vb |-> Grid(StatePalette, 3 * i + p, bw, dh)]

\* target yaws (thousandths of a degree) the sample sessions were started at
TargetYaws == <<0, 90500>>

\* rawData: a session of n ticks of w x h grids; odd = -1 for no odd tick
MakeSession(n, w, h, p, odd, kind) ==
    [ty  |-> TargetYaws[(p % Len(TargetYaws)) + 1],
     tfy |-> 60,
     d   |-> [i \in 1..n |-> MakeTick(i - 1, w, h, p, odd, kind)]]

\* the sessions the encoder is run on
Sessions ==
    { MakeSession(n, w, h, p, -1, "wide") :
        n \in 0..MaxTicks, w \in 1..MaxW, h \in 1..MaxH,
        p \in 0..(Len(TargetYaws) - 1) }
    \cup
    { MakeSession(n, w, h, p, odd, kind) :
        n \in 1..MaxTicks, w \in 1..MaxW, h \in 1..MaxH,
        p \in 0..(Len(TargetYaws) - 1), odd \in 0..(MaxTicks - 1),
        kind \in OddKinds }

\* the sessions whose encoded file is then cut short on disk
TruncSessions ==
    { MakeSession(n, d[1], d[2], 0, -1, "wide") :
        n \in K..MaxTicks, d \in {<<1, 1>>, <<MaxW, MaxH>>} }

\* a session without ticks
EmptySession == MakeSession(0, 1, 1, 0, -1, "wide")


----------------------------------------------------------------------------
(* State *)

VARIABLES
    rawData,              \* the parsed input JSON of the encoder run
    encStatus,            \* "idle", or how processFile ended
    processedSequences,   \* the sequences processFile built in memory
    outFile,              \* the file at the output path: [exists, bytes]
    viewStatus,           \* "idle", "loaded" or "failed" (the catch block ran)
    frameDataForFrontend, \* the viewer's decoded frames
    totalFrames,          \* the viewer's frame count
    visionWidth,          \* the viewer's grid width
    visionHeight,         \* the viewer's grid height
    sequenceLengthK,      \* the viewer's K
    bufferLength,         \* length of the buffer the viewer read
    readEnd,              \* highest end offset of any range the viewer read
    consoleLog,           \* the lines the viewer's loader wrote to the console
    diskEvent,            \* what happened to the file outside the encoder:
                          \* "none", "truncated" or "foreign" (not the encoder's)
    fnArg,                \* the argument a helper function is called with
    fnRes,                \* what the call returned
    fnDone,               \* "none", or the helper that was called
    rayGrid,              \* the vision grid of the capture mod: [w, h]
    rayWorld,             \* what world.raycast answers for the ray of each cell
    distances,            \* performVisionRaycasts: float[][] distances
    blockStates,          \* performVisionRaycasts: int[][] blockStates
    rayR,                 \* performVisionRaycasts: the loop variable r
    rayC,                 \* performVisionRaycasts: the loop variable c
    rayQueries,           \* per cell, the shape types of the world.raycast calls made
    rayWrites,            \* per cell, the number of assignments to distances[r][c]
    isRecording,          \* RLParkourCaptureClient.isRecording
    recordedData,         \* RLParkourCaptureClient.recordedData
    targetBearingYaw,     \* RLParkourCaptureClient.targetBearingYaw (<<>> for null, or <<yaw>>)
    fallZoneY,            \* RLParkourCaptureClient.fallZoneY (<<>> for null, or <<y>>)
    recordingStartTimeMillis, \* RLParkourCaptureClient.recordingStartTimeMillis
    pendingToggle,        \* presses of keyToggleRecording not yet consumed
    pendingFallZone,      \* presses of keySetFallZoneY not yet consumed
    clientTick,           \* number of END_CLIENT_TICK events so far
    savedRun,             \* the run file written last (<<>> before the first, or <<run>>)
    chat,                 \* the messages of the last client tick, by the line sending them
    client,               \* MinecraftClient: whether client.player and client.world were non-null on the last tick
    jsonStatus,           \* the JSON encoder's run: "idle", "skipped", "saved" or "error"
    jsonSequences,        \* the JSON encoder's processedSequences
    jsonFile,             \* the JSON encoder's output path: [exists, sequences]
    page,                 \* the viewer page in the browser: its script's variables, its controls' disabled flags, the active interval timers
    userActions           \* number of user actions on the page so far

encVars == <<rawData, encStatus, processedSequences, outFile>>
viewVars == <<viewStatus, frameDataForFrontend, totalFrames, visionWidth,
              visionHeight, sequenceLengthK, bufferLength, readEnd, consoleLog>>
fnVars == <<fnArg, fnRes, fnDone>>
rayVars == <<rayGrid, rayWorld, distances, blockStates, rayR, rayC,
             rayQueries, rayWrites>>
recVars == <<isRecording, recordedData, targetBearingYaw, fallZoneY,
             recordingStartTimeMillis, pendingToggle, pendingFallZone,
             clientTick, savedRun, chat, client>>
jsonVars == <<jsonStatus, jsonSequences, jsonFile>>
pageVars == <<page, userActions>>
auxVars == <<fnVars, rayVars, recVars, jsonVars, pageVars>>
\* everything but the helper-call variables
notFnVars == <<encVars, viewVars, diskEvent, rayVars, recVars, jsonVars,
               pageVars>>
\* everything but the variables of performVisionRaycasts
notRayVars == <<encVars, viewVars, diskEvent, fnVars, recVars, jsonVars,
                pageVars>>
\* everything but the variables of the capture mod's client
notRecVars == <<encVars, viewVars, diskEvent, fnVars, rayVars, jsonVars,
                pageVars>>
\* what a run of the JSON encoder leaves alone, its input rawData apart
notJsonVars == <<encStatus, processedSequences, outFile, viewVars, diskEvent,
                 fnVars, rayVars, recVars, pageVars>>
\* everything but the viewer page
notPageVars == <<encVars, viewVars, diskEvent, fnVars, rayVars, recVars,
                 jsonVars>>
vars == <<encVars, viewVars, diskEvent, auxVars>>

----------------------------------------------------------------------------
(* The binary encoder: processFile of process_parkour_data.js *)

\* concatenation of a sequence of byte sequences
RECURSIVE Flatten(_)
Flatten(chunks) ==
    IF chunks = <<>> THEN <<>> ELSE Head(chunks) \o Flatten(Tail(chunks))

\* the per-tick dimension check of the sequence loop (true = tick accepted)
TickDimsOk(tickData, width, height) ==
    /\ Len(tickData.vd) = height
    /\ Len(tickData.vd) > 0 /\ Len(tickData.vd[1]) = width
    /\ Len(tickData.vb) = height
    /\ Len(tickData.vb) > 0 /\ Len(tickData.vb[1]) = width

\* 1. the distance grid of one tick as a flat row-major buffer
TickDistBuffer(tickData, width, height) ==
    [i \in 1..(width * height) |->
        DistByte(tickData.vd[((i - 1) \div width) + 1][((i - 1) % width) + 1])]

\* 2. the block grid of one tick as a flat row-major buffer
TickBlockIdBuffer(tickData, width, height) ==
    [i \in 1..(width * height) |->
        getBlockType(tickData.vb[((i - 1) \div width) + 1][((i - 1) % width) + 1])]

BoolFloat(flag) == IF flag THEN Rat(1, 1) ELSE Rat(0, 1)

\* mutant of ProprioVector: the relative height is scaled but not clamped
ProprioVectorRawHeight(tickData, targetYaw, targetFallY) ==
    << Rat(clamp(tickData.vx, -MAX_VELOCITY, MAX_VELOCITY), MAX_VELOCITY),
       Rat(clamp(tickData.vy, -MAX_VELOCITY, MAX_VELOCITY), MAX_VELOCITY),
       Rat(clamp(tickData.vz, -MAX_VELOCITY, MAX_VELOCITY), MAX_VELOCITY),
       Rat(normalizeAngle(tickData.y - targetYaw), 180000),
       BoolFloat(tickData.g),
       BoolFloat(tickData.ch),
       BoolFloat(tickData.cv),
       Rat(tickData.py - targetFallY * 1000, MAX_REL_HEIGHT) >>

\* 3. the proprioceptive vector of one tick (8 doubles)
ProprioVector(tickData, targetYaw, targetFallY) ==
    << Rat(clamp(tickData.vx, -MAX_VELOCITY, MAX_VELOCITY), MAX_VELOCITY),
       Rat(clamp(tickData.vy, -MAX_VELOCITY, MAX_VELOCITY), MAX_VELOCITY),
       Rat(clamp(tickData.vz, -MAX_VELOCITY, MAX_VELOCITY), MAX_VELOCITY),
       Rat(normalizeAngle(tickData.y - targetYaw), 180000),
       BoolFloat(tickData.g),
       BoolFloat(tickData.ch),
       BoolFloat(tickData.cv),
       Rat(clamp(tickData.py - targetFallY * 1000, -MAX_REL_HEIGHT, MAX_REL_HEIGHT),
           MAX_REL_HEIGHT) >>

\* 4. the action byte of the last tick
ActionByte(lastTickData) ==
      (IF lastTickData.f THEN 1 ELSE 0)
    + (IF lastTickData.l THEN 2 ELSE 0)
    + (IF lastTickData.r THEN 4 ELSE 0)
    + (IF lastTickData.b THEN 8 ELSE 0)
    + (IF lastTickData.j THEN 16 ELSE 0)
    + (IF lastTickData.n THEN 32 ELSE 0)
    + (IF lastTickData.s THEN 64 ELSE 0)

\* mutant of LastTickIndex: the action is taken from the window's first tick
LastTickIndexFirst(t) == t - K + 1

\* the tick the sequence anchored at t labels its action with
LastTickIndex(t) == t

\* mutant of TickIndex: the newest tick is put in the first slot
TickIndexNewestFirst(t, offset) == t - offset

\* the tick index of slot offset (0..K-1) of the sequence anchored at t
TickIndex(t, offset) == t - K + 1 + offset

\* mutant of SequenceValid: only the anchor tick is validated
SequenceValidLastOnly(ticks, t, width, height) ==
    TickDimsOk(ticks[t + 1], width, height)

\* sequenceValid of the sequence anchored at t (t counts from 0)
SequenceValid(ticks, t, width, height) ==
    \A offset \in 0..(K - 1) :
        TickDimsOk(ticks[TickIndex(t, offset) + 1], width, height)

\* the sequence object built for anchor t; the field t records the anchor
BuildSequence(data, t, width, height) ==
    LET ticks == data.d
        tick(offset) == ticks[TickIndex(t, offset) + 1]
    IN  [vision_dist_seq_flat |->
            Flatten([o \in 1..K |-> TickDistBuffer(tick(o - 1), width, height)]),
         vision_block_id_seq_flat |->
            Flatten([o \in 1..K |-> TickBlockIdBuffer(tick(o - 1), width, height)]),
         proprio_seq |->
            [o \in 1..K |-> ProprioVector(tick(o - 1), data.ty, data.tfy)],
         action_byte |-> ActionByte(ticks[LastTickIndex(t) + 1]),
         t |-> t]

\* mutant of SequenceLoop: the loop ends at the first invalid sequence
RECURSIVE SequenceLoopStop(_, _, _, _)
SequenceLoopStop(data, t, width, height) ==
    IF t >= Len(data.d) \/ ~SequenceValid(data.d, t, width, height) THEN <<>>
    ELSE <<BuildSequence(data, t, width, height)>>
             \o SequenceLoopStop(data, t + 1, width, height)

\* the sequence loop: anchors t = first .. Len(ticks)-1 in order, invalid ones skipped
RECURSIVE SequenceLoop(_, _, _, _)
SequenceLoop(data, t, width, height) ==
    IF t >= Len(data.d) THEN <<>>
    ELSE (IF SequenceValid(data.d, t, width, height)
          THEN <<BuildSequence(data, t, width, height)>>
          ELSE <<>>)
         \o SequenceLoop(data, t + 1, width, height)

\* mutant of FirstAnchor: the loop starts one tick late
FirstAnchorLate == K

\* the anchor of the first sequence
FirstAnchor == K - 1

\* the not-enough-ticks test
TooFewTicks(ticks) == Len(ticks) < K

\* the first-tick test of the dimension inference (!firstTick?.vd?.[0])
FirstTickInvalid(ticks) == Len(ticks[1].vd) = 0

\* mutant of NoSequences: the run goes on to write with no sequence
NoSequencesIgnored(seqs) == FALSE

\* the no-valid-sequence test made before the output file is opened
NoSequences(seqs) == Len(seqs) = 0

\* big-endian unsigned integers
UInt16BE(v) == << (v \div 256) % 256, v % 256 >>
UInt32BE(v) == << (v \div 16777216) % 256, (v \div 65536) % 256,
                  (v \div 256) % 256, v % 256 >>

\* mutant of HeaderBuffer: K is written before the two dimensions
HeaderBufferKFirst(width, height, count) ==
    MAGIC_STRING \o <<FORMAT_VERSION>> \o <<K>> \o UInt16BE(width)
        \o UInt16BE(height) \o UInt32BE(count) \o UInt32BE(0)

\* the 20-byte header
HeaderBuffer(width, height, count) ==
    MAGIC_STRING \o <<FORMAT_VERSION>> \o UInt16BE(width) \o UInt16BE(height)
        \o <<K>> \o UInt32BE(count) \o UInt32BE(0)

\* the proprioceptive buffer of a sequence: K ticks of 8 big-endian floats
ProprioBuffer(seq) ==
    Flatten([i \in 1..(K * 8) |->
        writeFloatBE(seq.proprio_seq[((i - 1) \div 8) + 1][((i - 1) % 8) + 1])])

\* the four writeSync calls of one sequence, in order
SequenceWrites(seq) ==
    << seq.vision_dist_seq_flat,
       seq.vision_block_id_seq_flat,
       ProprioBuffer(seq),
       <<seq.action_byte>> >>

\* every writeSync call of a run, in order: the header, then each sequence
AllWrites(seqs, width, height) ==
    <<HeaderBuffer(width, height, Len(seqs))>>
        \o Flatten([i \in 1..Len(seqs) |-> SequenceWrites(seqs[i])])

\* what the output path holds when the run ends after nOk successful
\* writeSync calls: the catch block logs, the finally block closes the file
FileAfterWrites(writes, nOk) ==
    [exists |-> TRUE, bytes |-> Flatten(SubSeq(writes, 1, nOk))]

\* processFile(inputFilePath, outputFilePath) on the session rawData.
\* openOk: openSync succeeds; nOk: the number of writeSync calls that
\* succeed before one throws (all of them when nOk = number of calls).
processFile ==
    /\ encStatus = "idle"
    /\ rawData' = rawData
    /\ IF TooFewTicks(rawData.d) \/ FirstTickInvalid(rawData.d)
       THEN /\ encStatus' = "skipped"
            /\ processedSequences' = <<>>
            /\ outFile' = outFile
       ELSE LET height == Len(rawData.d[1].vd)
                width  == Len(rawData.d[1].vd[1])
                seqs   == SequenceLoop(rawData, FirstAnchor, width, height)
                writes == AllWrites(seqs, width, height)
            IN  /\ processedSequences' = seqs
                /\ IF NoSequences(seqs)
                   THEN encStatus' = "skipped" /\ outFile' = outFile
                   ELSE \E openOk \in BOOLEAN, nOk \in 0..Len(writes) :
                        IF ~openOk
                        THEN encStatus' = "error" /\ outFile' = outFile
                        ELSE /\ outFile' = FileAfterWrites(writes, nOk)
                             /\ encStatus' =
                                  IF nOk = Len(writes) THEN "saved" ELSE "error"
    /\ UNCHANGED <<viewVars, diskEvent, auxVars>>


----------------------------------------------------------------------------
(* The viewer's loader: the try / catch block of viewer.js *)

\* fileBuffer[off] (off counts from 0); outside the buffer there is no byte
ByteAt(buf, off) == IF off >= 0 /\ off < Len(buf) THEN buf[off + 1] ELSE 0

\* fileBuffer.subarray(from, to) as an array of bytes
Slice(buf, from, to) == [i \in 1..(to - from) |-> ByteAt(buf, from + i - 1)]

readUInt16BE(buf, off) == ByteAt(buf, off) * 256 + ByteAt(buf, off + 1)

\* readUInt32BE; counts of 2^31 and more are outside the model's integers
readUInt32BE(buf, off) ==
    ByteAt(buf, off) * 16777216 + ByteAt(buf, off + 1) * 65536
        + ByteAt(buf, off + 2) * 256 + ByteAt(buf, off + 3)

readFloatBE(buf, off) ==
    FloatOfBytes(ByteAt(buf, off), ByteAt(buf, off + 1),
                 ByteAt(buf, off + 2), ByteAt(buf, off + 3))

\* mutant of HeaderPresent: the length check is missing
HeaderPresentUnchecked(len) == TRUE

\* mutant of VersionSupported: any version is accepted
VersionAny(version) == TRUE

\* the buffer is long enough to hold the header
HeaderPresent(len) == len >= HEADER_SIZE

\* the version check of the header
VersionSupported(version) == version = EXPECTED_VERSION

\* bytes per grid per tick
VisionTickSize(width, height) == width * height

\* 8 floats * 4 bytes
ProprioTickSize == 8 * 4

\* mutant of BytesPerSequence: the action byte is not counted
BytesPerSequenceNoAction(width, height, k) ==
    2 * k * VisionTickSize(width, height) + k * ProprioTickSize

\* bytes per sequence: two vision blocks, the proprioceptive block, the action byte
BytesPerSequence(width, height, k) ==
    k * VisionTickSize(width, height) + k * VisionTickSize(width, height)
        + k * ProprioTickSize + 1

\* the frame count after comparing the expected and the actual data size
AdjustedFrames(declared, actualDataSize, bytesPerSequence) ==
    LET expectedDataSize == declared * bytesPerSequence
    IN  IF actualDataSize # expectedDataSize
        THEN IF actualDataSize < expectedDataSize /\ bytesPerSequence > 0
             THEN actualDataSize \div bytesPerSequence
             ELSE IF bytesPerSequence <= 0 THEN 0 ELSE declared
        ELSE declared

\* the flags decoded from an action byte
DecodeActions(actionByte) ==
    [forward |-> (actionByte \div 1) % 2 = 1,
     left    |-> (actionByte \div 2) % 2 = 1,
     right   |-> (actionByte \div 4) % 2 = 1,
     back    |-> (actionByte \div 8) % 2 = 1,
     jump    |-> (actionByte \div 16) % 2 = 1,
     sneak   |-> (actionByte \div 32) % 2 = 1,
     sprint  |-> (actionByte \div 64) % 2 = 1]

\* one pass of the extraction loop, for the sequence starting at
\* sequenceStartOffset: [ok, frame, readEnd]; ok = FALSE is a break
ExtractFrame(buf, sequenceStartOffset, width, height, k) ==
    LET visionTickSize     == VisionTickSize(width, height)
        visionSequenceSize == k * visionTickSize
        proprioSequenceSize == k * ProprioTickSize
        lastTickIndex      == k - 1
        distDataStart      == sequenceStartOffset + lastTickIndex * visionTickSize
        distDataEnd        == distDataStart + visionTickSize
        blockIdDataStart   == sequenceStartOffset + visionSequenceSize
                                 + lastTickIndex * visionTickSize
        blockIdDataEnd     == blockIdDataStart + visionTickSize
        proprioDataStart   == sequenceStartOffset + 2 * visionSequenceSize
                                 + lastTickIndex * ProprioTickSize
        proprioDataEnd     == proprioDataStart + ProprioTickSize
        actionByteOffset   == sequenceStartOffset + 2 * visionSequenceSize
                                 + proprioSequenceSize
        none               == [vision_dist |-> <<>>, vision_block_id |-> <<>>,
                               proprio |-> <<>>, actions |-> DecodeActions(0)]
    IN  IF distDataEnd > Len(buf) \/ blockIdDataEnd > Len(buf)
        THEN [ok |-> FALSE, frame |-> none, readEnd |-> 0]
        ELSE IF ~(proprioDataEnd <= Len(buf))
        THEN [ok |-> FALSE, frame |-> none, readEnd |-> blockIdDataEnd]
        ELSE IF ~(actionByteOffset < Len(buf))
        THEN [ok |-> FALSE, frame |-> none, readEnd |-> proprioDataEnd]
        ELSE [ok |-> TRUE,
              frame |->
                [vision_dist |-> Slice(buf, distDataStart, distDataEnd),
                 vision_block_id |-> Slice(buf, blockIdDataStart, blockIdDataEnd),
                 proprio |-> [q \in 1..8 |->
                                 readFloatBE(buf, proprioDataStart + (q - 1) * 4)],
                 actions |-> DecodeActions(ByteAt(buf, actionByteOffset))],
              readEnd |-> actionByteOffset + 1]

\* mutant of ExtractFrames: the loop runs while i <= totalFrames
RECURSIVE ExtractFramesOneMore(_, _, _, _, _, _, _)
ExtractFramesOneMore(buf, i, total, currentOffset, width, height, k) ==
    IF i > total THEN [frames |-> <<>>, totalFrames |-> total, readEnd |-> 0]
    ELSE LET one == ExtractFrame(buf, currentOffset, width, height, k)
         IN  IF ~one.ok
             THEN [frames |-> <<>>, totalFrames |-> i, readEnd |-> one.readEnd]
             ELSE LET rest == ExtractFramesOneMore(buf, i + 1, total,
                                  currentOffset + BytesPerSequence(width, height, k),
                                  width, height, k)
                  IN  [frames |-> <<one.frame>> \o rest.frames,
                       totalFrames |-> rest.totalFrames,
                       readEnd |-> Max(one.readEnd, rest.readEnd)]

\* the extraction loop from frame i on: [frames, totalFrames, readEnd]
RECURSIVE ExtractFrames(_, _, _, _, _, _, _)
ExtractFrames(buf, i, total, currentOffset, width, height, k) ==
    IF i >= total THEN [frames |-> <<>>, totalFrames |-> total, readEnd |-> 0]
    ELSE LET one == ExtractFrame(buf, currentOffset, width, height, k)
         IN  IF ~one.ok
             THEN [frames |-> <<>>, totalFrames |-> i, readEnd |-> one.readEnd]
             ELSE LET rest == ExtractFrames(buf, i + 1, total,
                                  currentOffset + BytesPerSequence(width, height, k),
                                  width, height, k)
                  IN  [frames |-> <<one.frame>> \o rest.frames,
                       totalFrames |-> rest.totalFrames,
                       readEnd |-> Max(one.readEnd, rest.readEnd)]

\* the viewer's state after the catch block: k is what sequenceLengthK held
\* when the error was thrown (the catch block does not reset it)
LoadFailed(len, k, end) ==
    [status |-> "failed", frames |-> <<>>, totalFrames |-> 0,
     visionWidth |-> 0, visionHeight |-> 0, sequenceLengthK |-> k,
     bufferLength |-> len, readEnd |-> end]

\* the whole load: existence, header checks, size calculation, extraction
LoadFile(file) ==
    IF ~file.exists THEN LoadFailed(0, 0, 0)
    ELSE LET buf == file.bytes
             len == Len(buf)
         IN  IF ~HeaderPresent(len) THEN LoadFailed(len, 0, 0)
             ELSE IF Slice(buf, 0, Len(MAGIC_STRING)) # MAGIC_STRING
             THEN LoadFailed(len, 0, 6)
             ELSE IF ~VersionSupported(ByteAt(buf, 6))
             THEN LoadFailed(len, 0, 7)
             ELSE
             LET width    == readUInt16BE(buf, 7)
                 height   == readUInt16BE(buf, 9)
                 k        == ByteAt(buf, 11)
                 declared == readUInt32BE(buf, 12)
             IN  IF width <= 0 \/ height <= 0 \/ k <= 0 \/ declared < 0
                 THEN LoadFailed(len, k, HEADER_SIZE)
                 ELSE
                 LET bytesPerSequence == BytesPerSequence(width, height, k)
                     total == AdjustedFrames(declared, len - HEADER_SIZE,
                                             bytesPerSequence)
                     got == ExtractFrames(buf, 0, total, HEADER_SIZE,
                                          width, height, k)
                 IN  [status |-> "loaded", frames |-> got.frames,
                      totalFrames |-> got.totalFrames,
                      visionWidth |-> width, visionHeight |-> height,
                      sequenceLengthK |-> k, bufferLength |-> len,
                      readEnd |-> Max(HEADER_SIZE, got.readEnd)]

\* the console lines of the load, in order; each is the source line that
\* prints it and the values its text holds
LoadLog(file) ==
    LET failure == <<[line |-> 246, error |-> TRUE]>>
    IN  IF ~file.exists THEN failure
        ELSE
        LET buf == file.bytes
            len == Len(buf)
            readLine == <<[line |-> 120, bytes |-> len]>>
        IN  IF \/ ~HeaderPresent(len)
               \/ Slice(buf, 0, Len(MAGIC_STRING)) # MAGIC_STRING
               \/ ~VersionSupported(ByteAt(buf, 6))
            THEN readLine \o failure
            ELSE
            LET width    == readUInt16BE(buf, 7)
                height   == readUInt16BE(buf, 9)
                k        == ByteAt(buf, 11)
                declared == readUInt32BE(buf, 12)
                headerLine == <<[line |-> 145, version |-> ByteAt(buf, 6),
                                 width |-> width, height |-> height, k |-> k,
                                 frames |-> declared]>>
            IN  IF width <= 0 \/ height <= 0 \/ k <= 0 \/ declared < 0
                THEN readLine \o headerLine \o failure
                ELSE
                LET bytesPerSequence == BytesPerSequence(width, height, k)
                    expectedDataSize == declared * bytesPerSequence
                    actualDataSize   == len - HEADER_SIZE
                    total == AdjustedFrames(declared, actualDataSize,
                                            bytesPerSequence)
                    got   == ExtractFrames(buf, 0, total, HEADER_SIZE,
                                           width, height, k)
                IN  readLine \o headerLine
                    \o (IF actualDataSize # expectedDataSize
                        THEN <<[line |-> 163, expected |-> expectedDataSize,
                                found |-> actualDataSize]>>
                        ELSE <<>>)
                    \o (IF actualDataSize < expectedDataSize /\ bytesPerSequence > 0
                        THEN <<[line |-> 167, adjustedTotalFrames |-> total]>>
                        ELSE <<>>)
                    \o (IF got.totalFrames < total
                        THEN <<[line |-> 188, frame |-> got.totalFrames]>>
                        ELSE <<>>)
                    \o <<[line |-> 243, parsedFrames |-> Len(got.frames)]>>

\* the route guard of GET /: the page is served unless loading failed badly
ServesPage == ~(totalFrames = 0 /\ visionWidth = 0)

\* the viewer starts on the file at the output path and loads it
loadFile ==
    /\ viewStatus = "idle"
    /\ LET res == LoadFile(outFile)
       IN  /\ viewStatus' = res.status
           /\ frameDataForFrontend' = res.frames
           /\ totalFrames' = res.totalFrames
           /\ visionWidth' = res.visionWidth
           /\ visionHeight' = res.visionHeight
           /\ sequenceLengthK' = res.sequenceLengthK
           /\ bufferLength' = res.bufferLength
           /\ readEnd' = res.readEnd
           /\ consoleLog' = LoadLog(outFile)
    /\ UNCHANGED <<encVars, diskEvent, auxVars>>

----------------------------------------------------------------------------
(* Specification: a session is encoded, then the viewer loads the file *)

\* no helper function has been called on its own
FnIdle == fnArg = 0 /\ fnRes = 0 /\ fnDone = "none"

\* performVisionRaycasts is not running
RayIdle ==
    /\ rayGrid = [w |-> 0, h |-> 0]
    /\ rayWorld = <<>>
    /\ distances = <<>>
    /\ blockStates = <<>>
    /\ rayR = 0
    /\ rayC = 0
    /\ rayQueries = <<>>
    /\ rayWrites = <<>>

\* the capture mod's client after construction (field initializers)
RecInit ==
    /\ isRecording = FALSE
    /\ recordedData = <<>>
    /\ targetBearingYaw = <<>>
    /\ fallZoneY = <<>>
    /\ recordingStartTimeMillis = 0
    /\ pendingToggle = 0
    /\ pendingFallZone = 0
    /\ clientTick = 0
    /\ savedRun = <<>>
    /\ chat = <<>>
    /\ client = [player |-> FALSE, world |-> FALSE]

\* the JSON encoder has not been run and its output path is empty
JsonIdle ==
    /\ jsonStatus = "idle"
    /\ jsonSequences = <<>>
    /\ jsonFile = [exists |-> FALSE, sequences |-> <<>>]

\* no viewer page is open in a browser
PageClosed ==
    /\ page = [kind |-> "none"]
    /\ userActions = 0

\* the parts of the state a run of the encoder and the viewer does not use
AuxIdle == FnIdle /\ RayIdle /\ RecInit /\ JsonIdle /\ PageClosed

ViewInit ==
    /\ viewStatus = "idle"
    /\ frameDataForFrontend = <<>>
    /\ totalFrames = 0
    /\ visionWidth = 0
    /\ visionHeight = 0
    /\ sequenceLengthK = 0
    /\ bufferLength = 0
    /\ readEnd = 0
    /\ consoleLog = <<>>

NoFile == [exists |-> FALSE, bytes |-> <<>>]

Init ==
    /\ rawData \in Sessions
    /\ encStatus = "idle"
    /\ processedSequences = <<>>
    /\ outFile = NoFile
    /\ diskEvent = "none"
    /\ ViewInit
    /\ AuxIdle

Next ==
    \/ processFile
    \/ encStatus # "idle" /\ loadFile

Spec == Init /\ [][Next]_vars

----------------------------------------------------------------------------
(* Specification: the encoded file is cut short before the viewer loads it *)

\* the complete file the encoder saved loses its tail: any length from the
\* header size up to one byte less than the full length is left
truncateFile ==
    /\ encStatus = "saved"
    /\ diskEvent = "none"
    /\ viewStatus = "idle"
    /\ \E len \in HEADER_SIZE..(Len(outFile.bytes) - 1) :
          outFile' = [exists |-> TRUE, bytes |-> SubSeq(outFile.bytes, 1, len)]
    /\ diskEvent' = "truncated"
    /\ UNCHANGED <<rawData, encStatus, processedSequences, viewVars, auxVars>>

InitTrunc ==
    /\ rawData \in TruncSessions
    /\ encStatus = "idle"
    /\ processedSequences = <<>>
    /\ outFile = NoFile
    /\ diskEvent = "none"
    /\ ViewInit
    /\ AuxIdle

NextTrunc ==
    \/ processFile
    \/ truncateFile
    \/ encStatus # "idle" /\ loadFile

SpecTrunc == InitTrunc /\ [][NextTrunc]_vars

----------------------------------------------------------------------------
(* Specification: the viewer is started on an arbitrary file *)

\* longest arbitrary buffer
MaxBufLen == 100

\* the bytes after the header of an arbitrary buffer
Filler(n) == [i \in 1..n |-> (i * 37 + 11) % 256]

\* the first len bytes of: 6 magic bytes, version, width, height, k, count,
\* reserved, filler
MakeBuffer(magic, version, width, height, k, count, len) ==
    SubSeq(magic \o <<version>> \o UInt16BE(width) \o UInt16BE(height) \o <<k>>
               \o UInt32BE(count) \o UInt32BE(0) \o Filler(len),
           1, len)

\* magic tags that are not "PKDSEQ": "PKDSEq", "XKDSEQ"
BadMagics == { <<80, 75, 68, 83, 69, 113>>, <<88, 75, 68, 83, 69, 81>> }

\* the files the viewer may be pointed at: any length, any header fields
ArbitraryFiles ==
    { [exists |-> TRUE, bytes |-> MakeBuffer(MAGIC_STRING, 1, w, h, k, c, len)] :
        w \in {0, 1, 2, 65535}, h \in 0..1, k \in 0..2, c \in {0, 1, 2, 3, 4096},
        len \in 0..MaxBufLen }
    \cup
    { [exists |-> TRUE, bytes |-> MakeBuffer(m, 1, 1, 1, 1, 1, len)] :
        m \in BadMagics, len \in 0..MaxBufLen }
    \cup
    { [exists |-> TRUE, bytes |-> MakeBuffer(MAGIC_STRING, v, 1, 1, 1, 1, len)] :
        v \in {0, 2}, len \in 0..MaxBufLen }
    \cup
    { NoFile }

InitDecode ==
    /\ rawData = EmptySession
    /\ encStatus = "idle"
    /\ processedSequences = <<>>
    /\ outFile \in ArbitraryFiles
    /\ diskEvent = "foreign"
    /\ ViewInit
    /\ AuxIdle

NextDecode == loadFile

SpecDecode == InitDecode /\ [][NextDecode]_vars


----------------------------------------------------------------------------
(* Vocabulary of the properties *)

\* the ticks of the session, and tick number i counted from 0
NumTicks == Len(rawData.d)
TickAt(i) == rawData.d[i + 1]

\* height and width of the two grids of a tick
GridDims(tickData) ==
    << Len(tickData.vd),
       IF Len(tickData.vd) > 0 THEN Len(tickData.vd[1]) ELSE 0,
       Len(tickData.vb),
       IF Len(tickData.vb) > 0 THEN Len(tickData.vb[1]) ELSE 0 >>

\* the dimensions the session's first tick establishes
RefHeight == Len(TickAt(0).vd)
RefWidth == Len(TickAt(0).vd[1])

\* every tick has the grid dimensions of the first tick
AllSameDims == \A i \in 0..(NumTicks - 1) : GridDims(TickAt(i)) = GridDims(TickAt(0))

\* tick j is the one tick whose dimensions differ from all the others
OnlyOddTick(j) ==
    /\ j \in 0..(NumTicks - 1)
    /\ \A i \in 0..(NumTicks - 1) :
          i # j => /\ GridDims(TickAt(i)) # GridDims(TickAt(j))
                   /\ \A i2 \in 0..(NumTicks - 1) :
                         i2 # j => GridDims(TickAt(i2)) = GridDims(TickAt(i))

\* the anchors a sequence of the run can have, and those of the emitted ones
AllAnchors == (K - 1)..(NumTicks - 1)
EmittedAnchors == { processedSequences[i].t : i \in 1..Len(processedSequences) }

\* the window anchored at t covers tick j
Covers(t, j) == t - K + 1 <= j /\ j <= t

\* processFile has run
Encoded == encStatus # "idle"

----------------------------------------------------------------------------
(* C2: windowing count *)

\* C2: when every tick has the grid dimensions of the first tick, the run
\* emits exactly N - K + 1 windows if K <= N and none if N < K.
C2_WindowCount ==
    (Encoded /\ AllSameDims) =>
        Len(processedSequences) = IF NumTicks >= K THEN NumTicks - K + 1 ELSE 0

C2_Witness ==
    /\ encStatus = "saved" /\ AllSameDims
    /\ NumTicks > K /\ Len(processedSequences) = NumTicks - K + 1

----------------------------------------------------------------------------
(* C3: one tick of other dimensions *)

\* C3 as stated: with exactly one odd tick, at any index including 0, the
\* dropped windows are exactly those covering it.
C3_DropsOnlyCovering ==
    \A j \in 0..(NumTicks - 1) :
        (Encoded /\ OnlyOddTick(j)) =>
            EmittedAnchors = { t \in AllAnchors : ~Covers(t, j) }

\* C3 amended: that holds for an odd tick at an index >= 1, and the emitted
\* windows keep the anchor order; an odd tick at index 0 whose distance grid
\* differs sets the reference dimensions, and then every window is dropped.
C3_DropsCoveringFromIndex1 ==
    \A j \in 0..(NumTicks - 1) :
        (Encoded /\ OnlyOddTick(j)) =>
            /\ j >= 1 =>
                  /\ EmittedAnchors = { t \in AllAnchors : ~Covers(t, j) }
                  /\ Len(processedSequences) = Cardinality(EmittedAnchors)
                  /\ \A i \in 1..(Len(processedSequences) - 1) :
                        processedSequences[i].t < processedSequences[i + 1].t
            /\ (j = 0 /\ NumTicks >= 2
                  /\ <<GridDims(TickAt(0))[1], GridDims(TickAt(0))[2]>>
                       # <<GridDims(TickAt(NumTicks - 1))[1],
                           GridDims(TickAt(NumTicks - 1))[2]>>) =>
                  processedSequences = <<>>

\* a window is emitted after the windows covering the odd tick were dropped
C3_Witness ==
    \E j \in 1..(NumTicks - 1) :
        /\ Encoded /\ OnlyOddTick(j)
        /\ \E t \in AllAnchors : Covers(t, j)
        /\ \E t \in EmittedAnchors : t > j

----------------------------------------------------------------------------
(* C4: the five-tick scenario *)

\* 5 ticks, and the tick at index 2 alone has another grid width
C4_Scenario ==
    /\ NumTicks = 5
    /\ OnlyOddTick(2)
    /\ GridDims(TickAt(2))[2] # GridDims(TickAt(0))[2]
    /\ GridDims(TickAt(2))[1] = GridDims(TickAt(0))[1]

\* C4 as stated: the scenario yields exactly one window, anchored at tick 4.
C4_OneWindowAtTick4 ==
    (Encoded /\ C4_Scenario) => EmittedAnchors = {4} /\ Len(processedSequences) = 1

\* C4 amended: the scenario yields no window: with K = 4 the only anchors
\* are 3 and 4, both windows cover tick 2, and no output file is written.
C4_NoWindow ==
    (Encoded /\ C4_Scenario) =>
        /\ AllAnchors = {3, 4}
        /\ processedSequences = <<>>
        /\ encStatus = "skipped" /\ ~outFile.exists

C4_Witness == Encoded /\ C4_Scenario /\ RefWidth = 1 /\ RefHeight = 1

----------------------------------------------------------------------------
(* Vocabulary of the codec properties *)

\* body size of one window for the session's grid: 2*K*W*H + 32*K + 1
SeqBodySize == 2 * K * RefWidth * RefHeight + 32 * K + 1

\* bit i of a byte
Bit(byte, i) == (byte \div Pow2(i)) % 2 = 1

\* the seven input flags of a tick, in the order of the action bits
FlagsOf(tickData) ==
    <<tickData.f, tickData.l, tickData.r, tickData.b, tickData.j, tickData.n,
      tickData.s>>

\* the seven decoded flags of a frame, in the same order
FrameFlags(frame) ==
    <<frame.actions.forward, frame.actions.left, frame.actions.right,
      frame.actions.back, frame.actions.jump, frame.actions.sneak,
      frame.actions.sprint>>

\* the last tick's part of a flat K-tick vision buffer
LastTickSlice(flat) ==
    SubSeq(flat, (K - 1) * RefWidth * RefHeight + 1, K * RefWidth * RefHeight)

\* the frame holds the last tick's distance and category bytes of the
\* sequence, and the flags of the sequence's anchor tick
FrameHoldsGridsAndFlags(frame, seq) ==
    /\ Len(frame.vision_dist) = RefWidth * RefHeight
    /\ \A i \in 1..(RefWidth * RefHeight) :
          /\ frame.vision_dist[i] = LastTickSlice(seq.vision_dist_seq_flat)[i]
          /\ frame.vision_block_id[i] = LastTickSlice(seq.vision_block_id_seq_flat)[i]
    /\ Len(frame.vision_block_id) = RefWidth * RefHeight
    /\ FrameFlags(frame) = FlagsOf(TickAt(seq.t))

\* every in-range distance of the anchor tick is recovered from the frame's
\* byte to within 0.05 blocks: |b/10 - d| <= 0.05
DistancesRecovered(frame, seq) ==
    \A r \in 1..RefHeight, c \in 1..RefWidth :
        LET d == TickAt(seq.t).vd[r][c]
            b == frame.vision_dist[(r - 1) * RefWidth + c]
        IN  (0 <= d /\ d <= 25500) => Abs(b * 100 - d) <= 50

\* the encoder's file is complete on disk and the viewer has loaded it
SavedAndViewed == encStatus = "saved" /\ diskEvent = "none" /\ viewStatus # "idle"

----------------------------------------------------------------------------
(* C1: round trip *)

\* C1 as stated: every window written is decoded at the same position with
\* the last tick's distance and category bytes, its 8 proprioceptive values
\* (exactly), the anchor tick's flags, and distances within 0.05.
C1_RoundTripExact ==
    SavedAndViewed =>
        /\ viewStatus = "loaded"
        /\ Len(frameDataForFrontend) = Len(processedSequences)
        /\ \A i \in 1..Len(processedSequences) :
              LET frame == frameDataForFrontend[i]
                  seq   == processedSequences[i]
              IN  /\ FrameHoldsGridsAndFlags(frame, seq)
                  /\ DistancesRecovered(frame, seq)
                  /\ \A q \in 1..8 :
                        FloatIsRat(frame.proprio[q], seq.proprio_seq[K][q])

\* C1 amended: the same, with the 8 proprioceptive values narrowed to single
\* precision: each is within 2^-23 of the last tick's value, and equal to it
\* when that value is 0, 1 or -1 (the contact flags always are).
C1_RoundTripSingle ==
    SavedAndViewed =>
        /\ viewStatus = "loaded"
        /\ Len(frameDataForFrontend) = Len(processedSequences)
        /\ \A i \in 1..Len(processedSequences) :
              LET frame == frameDataForFrontend[i]
                  seq   == processedSequences[i]
              IN  /\ FrameHoldsGridsAndFlags(frame, seq)
                  /\ DistancesRecovered(frame, seq)
                  /\ \A q \in 1..8 :
                        LET x == seq.proprio_seq[K][q]
                        IN  /\ FloatNearRat(frame.proprio[q], x)
                            /\ Abs(x.n) \in {0, x.d} =>
                                  FloatIsRat(frame.proprio[q], x)

\* a loaded file of two or more windows, one of which holds a distance byte
\* strictly between 0 and 255, a non-default category and a proprioceptive
\* value that single precision cannot hold
C1_Witness ==
    /\ SavedAndViewed /\ Len(frameDataForFrontend) >= 2
    /\ \E i \in 1..Len(frameDataForFrontend) :
          LET frame == frameDataForFrontend[i]
              seq   == processedSequences[i]
          IN  /\ \E c \in 1..Len(frame.vision_dist) :
                    frame.vision_dist[c] \notin {0, 255}
              /\ \E c \in 1..Len(frame.vision_block_id) :
                    frame.vision_block_id[c] # 0
              /\ \E q \in 1..8 :
                    ~FloatIsRat(frame.proprio[q], seq.proprio_seq[K][q])

----------------------------------------------------------------------------
(* C9: artifact layout *)

\* the anchors whose K ticks all have the reference dimensions
ValidAnchors ==
    { t \in AllAnchors :
        \A j \in (t - K + 1)..t :
            GridDims(TickAt(j)) = <<RefHeight, RefWidth, RefHeight, RefWidth>> }

\* C9: a saved file is one 20-byte header (magic 0, version 6, width 7,
\* height 9, K 11, count 12, reserved 16) and one body of 2*K*W*H + 32*K + 1
\* bytes per emitted window, nothing else; the count is the number of
\* non-dropped windows and the viewer reads back width, height, K and count.
C9_Layout ==
    (encStatus = "saved" /\ diskEvent = "none") =>
        LET b == outFile.bytes
            n == Len(processedSequences)
        IN  /\ outFile.exists
            /\ Len(b) = 20 + n * SeqBodySize
            /\ SubSeq(b, 1, 6) = <<80, 75, 68, 83, 69, 81>>
            /\ b[7] = 1
            /\ b[8] * 256 + b[9] = RefWidth
            /\ b[10] * 256 + b[11] = RefHeight
            /\ b[12] = K
            /\ b[13] * 16777216 + b[14] * 65536 + b[15] * 256 + b[16] = n
            /\ \A i \in 17..20 : b[i] = 0
            /\ n = Cardinality(ValidAnchors)
            /\ \A i \in 1..n : b[20 + i * SeqBodySize] = processedSequences[i].action_byte
            /\ viewStatus # "idle" =>
                  /\ viewStatus = "loaded"
                  /\ visionWidth = RefWidth /\ visionHeight = RefHeight
                  /\ sequenceLengthK = K /\ totalFrames = n

\* a saved and loaded file of a 2 x 1 grid from which a window was dropped
C9_Witness ==
    /\ SavedAndViewed /\ RefWidth = 2 /\ RefHeight = 1
    /\ Len(processedSequences) = 2
    /\ Cardinality(AllAnchors) = 3

----------------------------------------------------------------------------
(* C10: action byte *)

\* C10: in every emitted window, bit i (0..6) of the action byte is set iff
\* flag i of the anchor tick is true (forward, left, right, back, jump, sneak,
\* sprint), bit 7 is 0, forward and jump alone give 17; the byte is the last
\* byte of the window's body in the file.
C10_ActionByte ==
    \A i \in 1..Len(processedSequences) :
        LET seq   == processedSequences[i]
            flags == FlagsOf(TickAt(seq.t))
        IN  /\ seq.action_byte \in 0..255
            /\ \A k \in 0..6 : Bit(seq.action_byte, k) <=> flags[k + 1]
            /\ ~Bit(seq.action_byte, 7)
            /\ flags = <<TRUE, FALSE, FALSE, FALSE, TRUE, FALSE, FALSE>> =>
                  seq.action_byte = 17
            /\ (encStatus = "saved" /\ diskEvent = "none") =>
                  outFile.bytes[20 + i * SeqBodySize] = seq.action_byte

\* a saved window labelled 17 whose earlier ticks carry other flags
C10_Witness ==
    /\ encStatus = "saved"
    /\ \E i \in 1..Len(processedSequences) :
          LET seq == processedSequences[i]
          IN  /\ seq.action_byte = 17
              /\ FlagsOf(TickAt(seq.t - 1)) # FlagsOf(TickAt(seq.t))
              /\ FlagsOf(TickAt(seq.t - K + 1)) # FlagsOf(TickAt(seq.t))

----------------------------------------------------------------------------
(* C8: encode is all-or-nothing *)

\* the window count a file's header declares
DeclaredCount(b) == b[13] * 16777216 + b[14] * 65536 + b[15] * 256 + b[16]

\* the file is a header and exactly as many bodies as the header declares
CompleteArtifact(b) ==
    Len(b) >= 20 /\ Len(b) = 20 + DeclaredCount(b) * SeqBodySize

\* C8: after a run that ended with a write error the output path holds no
\* artifact (no file, or less than a header) or a complete artifact.
C8_AllOrNothing ==
    encStatus = "error" =>
        \/ ~outFile.exists
        \/ Len(outFile.bytes) < 20
        \/ CompleteArtifact(outFile.bytes)

----------------------------------------------------------------------------
(* C5: truncation recovery *)

\* C5: a saved file cut to a length L, 20 <= L < full length, loads without
\* an error into exactly floor((L - 20) / bodySize) frames (declaredCount - 1
\* when only the last body is cut), which are the first windows, unchanged.
C5_TruncationRecovery ==
    (diskEvent = "truncated" /\ viewStatus # "idle") =>
        LET len == Len(outFile.bytes)
            n   == Len(processedSequences)
        IN  /\ viewStatus = "loaded"
            /\ totalFrames = (len - 20) \div SeqBodySize
            /\ Len(frameDataForFrontend) = totalFrames
            /\ totalFrames < n
            /\ len >= 20 + (n - 1) * SeqBodySize => totalFrames = n - 1
            /\ \A i \in 1..totalFrames :
                  LET frame == frameDataForFrontend[i]
                      seq   == processedSequences[i]
                  IN  /\ FrameHoldsGridsAndFlags(frame, seq)
                      /\ \A q \in 1..8 :
                            frame.proprio[q] = Float32(seq.proprio_seq[K][q])

\* a file of three windows cut inside its second body is loaded as one frame
C5_Witness ==
    /\ diskEvent = "truncated" /\ viewStatus = "loaded"
    /\ Len(processedSequences) = 3
    /\ totalFrames = 1
    /\ Len(outFile.bytes) > 20 + SeqBodySize + 2 * K * RefWidth * RefHeight

----------------------------------------------------------------------------
(* C6: the loader stays inside the buffer *)

\* C6: whatever the file holds, every range the loader slices or reads ends
\* at or before the end of the buffer it read.
C6_ReadsInBounds ==
    viewStatus # "idle" =>
        /\ readEnd <= bufferLength
        /\ bufferLength = Len(outFile.bytes)

\* a file declaring more windows than it holds was loaded up to its last
\* complete body, with a partial body left unread
C6_Witness ==
    /\ viewStatus = "loaded" /\ totalFrames >= 1
    /\ DeclaredCount(outFile.bytes) > totalFrames
    /\ readEnd > 20 /\ readEnd < bufferLength

----------------------------------------------------------------------------
(* C7: fatal header errors *)

\* the file is shorter than a header, or its magic or version is wrong
FatalHeader ==
    \/ Len(outFile.bytes) < 20
    \/ SubSeq(outFile.bytes, 1, 6) # <<80, 75, 68, 83, 69, 81>>
    \/ outFile.bytes[7] # 1

----------------------------------------------------------------------------
(* C11: window contents and order *)

\* the i-th smallest (i from 1) of the anchors whose K ticks are all valid
NthValidAnchor(i) ==
    CHOOSE a \in ValidAnchors : Cardinality({ b \in ValidAnchors : b < a }) = i - 1

\* byte number off (from 0) of the body of window i (from 1) of the file
BodyByte(i, off) == outFile.bytes[HEADER_SIZE + (i - 1) * SeqBodySize + off + 1]

\* C11: in a saved file, window i is the one anchored at the i-th valid
\* anchor t in increasing order, and slot j (0..K-1) of each of its three
\* blocks (distance grids, category grids, proprioceptive vectors) holds tick
\* t-K+1+j, oldest first, row-major within a grid.
C11_WindowOrder ==
    (encStatus = "saved" /\ diskEvent = "none") =>
        /\ Len(processedSequences) = Cardinality(ValidAnchors)
        /\ \A i \in 1..Len(processedSequences) :
              LET t    == NthValidAnchor(i)
                  cell == RefWidth * RefHeight
              IN  \A j \in 0..(K - 1) :
                    LET tickData == TickAt(t - K + 1 + j)
                    IN  /\ \A r \in 1..RefHeight, c \in 1..RefWidth :
                              LET at == j * cell + (r - 1) * RefWidth + (c - 1)
                              IN  /\ BodyByte(i, at) = DistByte(tickData.vd[r][c])
                                  /\ BodyByte(i, K * cell + at)
                                        = getBlockType(tickData.vb[r][c])
                        /\ \A q \in 1..8 :
                              LET at == 2 * K * cell + j * 32 + (q - 1) * 4
                                  v  == ProprioVector(tickData, rawData.ty,
                                                      rawData.tfy)[q]
                              IN  <<BodyByte(i, at), BodyByte(i, at + 1),
                                    BodyByte(i, at + 2), BodyByte(i, at + 3)>>
                                      = FloatBytes(Float32(v))

\* a saved file of two windows or more, with a dropped window before the
\* last one, whose first window holds different distance bytes, category
\* bytes and proprioceptive floats in its oldest and its newest slot
C11_Witness ==
    /\ encStatus = "saved" /\ diskEvent = "none"
    /\ Len(processedSequences) >= 2
    /\ Cardinality(ValidAnchors) < Cardinality(AllAnchors)
    /\ LET cell == RefWidth * RefHeight
       IN  /\ BodyByte(1, 0) # BodyByte(1, (K - 1) * cell)
           /\ BodyByte(1, K * cell) # BodyByte(1, K * cell + (K - 1) * cell)
           /\ \E b \in 0..31 : BodyByte(1, 2 * K * cell + b)
                                  # BodyByte(1, 2 * K * cell + (K - 1) * 32 + b)


----------------------------------------------------------------------------
(* Specification: the distance quantization applied to one distance *)

\* neither encoder has run and the viewer has loaded nothing
ToolsIdle ==
    /\ rawData = EmptySession
    /\ encStatus = "idle"
    /\ processedSequences = <<>>
    /\ outFile = NoFile
    /\ diskEvent = "none"
    /\ ViewInit
    /\ JsonIdle

\* neither the encoder nor the viewer runs, and no page is open
PipeIdle == ToolsIdle /\ PageClosed

\* largest distance of the exhaustive range, in thousandths of a block
MaxDistInput == 26000

\* every distance of three decimals from -0.3 to 26 blocks, the capture
\* mod's miss distance of 64 blocks, and 100 blocks
DistanceInputs == (-300..MaxDistInput) \cup {64000, 100000}

\* lines 109-111 of processFile on the cell value fnArg
quantizeDistance ==
    /\ fnDone = "none"
    /\ fnRes' = DistByte(fnArg)
    /\ fnDone' = "DistByte"
    /\ UNCHANGED <<fnArg, notFnVars>>

InitQuantize ==
    /\ PipeIdle /\ RayIdle /\ RecInit
    /\ fnArg \in DistanceInputs /\ fnRes = 0 /\ fnDone = "none"

NextQuantize == quantizeDistance

SpecQuantize == InitQuantize /\ [][NextQuantize]_vars

----------------------------------------------------------------------------
(* C12: quantization saturation *)

\* C12: the byte stored for a distance d is in 0..255; it is 0 for d <= 0,
\* 255 for d >= 25.5, and otherwise the tenth nearest to d (halves up), which
\* is min(255, round(10 * clamp(d, 0, 25.5))); 0, 25.5 and 100 give 0, 255, 255.
C12_Saturation ==
    fnDone = "DistByte" =>
        /\ fnRes \in 0..255
        /\ fnArg <= 0 => fnRes = 0
        /\ fnArg >= 25500 => fnRes = 255
        /\ (0 <= fnArg /\ fnArg <= 25500) =>
              /\ fnRes * 100 - 50 <= fnArg
              /\ fnArg < fnRes * 100 + 50
        /\ fnArg = 0 => fnRes = 0
        /\ fnArg = 25500 => fnRes = 255
        /\ fnArg = 100000 => fnRes = 255

\* the out-of-range distance of 100 blocks was stored as 255
C12_Witness == fnDone = "DistByte" /\ fnArg = 100000 /\ fnRes = 255


----------------------------------------------------------------------------
(* Specification: normalizeAngle applied to one angle and to that angle + 360 *)

\* most whole turns an input angle is away from (-180, 180]
MaxTurns == 6

\* positions within one turn, in thousandths of a degree
TurnOffsets ==
    {-180001, -180000, -179999, -90500, -1, 0, 1, 500, 90000, 179999,
     180000, 180001, 270000, 359999}

\* negative and positive angles up to MaxTurns turns away
AngleInputs ==
    { k * 360000 + o : k \in (-MaxTurns)..MaxTurns, o \in TurnOffsets }

\* normalizeAngle(a) and normalizeAngle(a + 360)
normalizeYaw ==
    /\ fnDone = "none"
    /\ fnRes' = <<normalizeAngle(fnArg), normalizeAngle(fnArg + 360000)>>
    /\ fnDone' = "normalizeAngle"
    /\ UNCHANGED <<fnArg, notFnVars>>

InitAngle ==
    /\ PipeIdle /\ RayIdle /\ RecInit
    /\ fnArg \in AngleInputs /\ fnRes = 0 /\ fnDone = "none"

NextAngle == normalizeYaw

SpecAngle == InitAngle /\ [][NextAngle]_vars

----------------------------------------------------------------------------
(* C13: angle normalization *)

\* C13: for every angle a, normalizeAngle(a) lies in (-180, 180], differs
\* from a by a whole number of turns, and equals normalizeAngle(a + 360).
C13_AngleNormalized ==
    fnDone = "normalizeAngle" =>
        /\ fnRes[1] > -180000 /\ fnRes[1] <= 180000
        /\ (fnArg - fnRes[1]) % 360000 = 0
        /\ fnRes[2] = fnRes[1]

\* a negative angle more than three turns away was normalized to 180
C13_Witness ==
    /\ fnDone = "normalizeAngle"
    /\ fnArg < -3 * 360000
    /\ fnRes[1] = 180000


----------------------------------------------------------------------------
(* C14: the loader reports how many windows it dropped *)

\* the counts of dropped windows the loader's console lines report
ReportedDropCounts ==
    { consoleLog[i].dropped :
        i \in { n \in 1..Len(consoleLog) : "dropped" \in DOMAIN consoleLog[n] } }

\* C14: when the loader returns fewer frames than the header declares, it
\* reports the number of windows dropped, declared count minus returned count.
C14_ReportsDropped ==
    (viewStatus = "loaded"
        /\ Len(frameDataForFrontend) < DeclaredCount(outFile.bytes)) =>
        (DeclaredCount(outFile.bytes) - Len(frameDataForFrontend))
            \in ReportedDropCounts


----------------------------------------------------------------------------
(* C15: what a decoded frame exposes *)

\* C15: every frame the viewer decoded from a saved file holds the last
\* tick's distance and category grids, the decoded action bits, and the
\* proprioceptive vectors of all K ticks of its window (K vectors of 8 values).
C15_ExposesFullSequence ==
    SavedAndViewed =>
        /\ viewStatus = "loaded"
        /\ Len(frameDataForFrontend) = Len(processedSequences)
        /\ \A i \in 1..Len(processedSequences) :
              LET frame == frameDataForFrontend[i]
                  seq   == processedSequences[i]
              IN  /\ FrameHoldsGridsAndFlags(frame, seq)
                  /\ Len(frame.proprio) = K
                  /\ \A j \in 1..K :
                        /\ DOMAIN frame.proprio[j] = 1..8
                        /\ \A q \in 1..8 :
                              frame.proprio[j][q] = Float32(seq.proprio_seq[j][q])


----------------------------------------------------------------------------
(* Specification: the encoder is run where an output file may already exist *)

\* the complete file an earlier run left at the output path
EarlierFile ==
    LET earlier == MakeSession(K, 1, 1, 1, -1, "wide")
        writes  == AllWrites(SequenceLoop(earlier, FirstAnchor, 1, 1), 1, 1)
    IN  FileAfterWrites(writes, Len(writes))

InitRerun ==
    /\ rawData \in Sessions
    /\ encStatus = "idle"
    /\ processedSequences = <<>>
    /\ outFile \in {NoFile, EarlierFile}
    /\ diskEvent = "none"
    /\ ViewInit
    /\ AuxIdle

NextRerun ==
    \/ processFile
    \/ encStatus # "idle" /\ loadFile

SpecRerun == InitRerun /\ [][NextRerun]_vars

----------------------------------------------------------------------------
(* C16: insufficient data is not an error *)

\* the session has fewer than K ticks, or each of its windows holds a tick
\* whose dimensions differ from the first tick's
NoWindowPossible == NumTicks < K \/ ValidAnchors = {}

\* C16: a run of the encoder on a session with fewer than K ticks, or whose
\* windows are all dropped, builds no window, ends normally (skipped, not
\* with an error) and leaves the output path as it was: no file is created
\* and an existing file is not touched.
C16_InsufficientData ==
    [][ (encStatus = "idle" /\ encStatus' # "idle" /\ NoWindowPossible) =>
            /\ processedSequences' = <<>>
            /\ encStatus' = "skipped"
            /\ outFile' = outFile ]_vars

\* a run on a session of K ticks or more whose windows were all dropped
\* ended with the earlier file still at the output path
C16_Witness ==
    /\ encStatus = "skipped"
    /\ NumTicks > K
    /\ ValidAnchors = {}
    /\ outFile = EarlierFile


----------------------------------------------------------------------------
(* The capture mod's vision: performVisionRaycasts of ParkourTickData.java.
   The grid is VISION_GRID_HEIGHT x VISION_GRID_WIDTH (54 x 36); the model
   runs it on grids of up to MaxH x MaxW cells.  world.raycast is the host's
   query; rayWorld holds its answer for every cell and both shape types. *)

\* MAX_RAYCAST_DISTANCE = 64.0f, in blocks
MAX_RAYCAST_DISTANCE == 64

SPECIAL_NON_COLLIDABLE_BLOCKS ==
    {"ladder", "vine", "twisting_vines", "twisting_vines_plant",
     "weeping_vines", "weeping_vines_plant", "water", "lava", "cobweb"}

\* Block.getRawIdFromState(state): the inverse of blockNameOfState on the
\* blocks the sample worlds hold; short_grass has no entry in that table
getRawIdFromState(block) ==
    CASE block = "air" -> 0
      [] block = "stone" -> 1
      [] block = "ladder" -> 2
      [] block = "vine" -> 3
      [] block = "water" -> 5
      [] block = "cobweb" -> 8
      [] block = "short_grass" -> 13
      [] OTHER -> 999

\* a BlockHitResult: its type, the distance of its position from the eye
\* (a double, in blocks) and the block at its block position
Hit(block, n, d) == [type |-> "BLOCK", dist |-> Rat(n, d), block |-> block]
Miss == [type |-> "MISS", dist |-> Rat(MAX_RAYCAST_DISTANCE, 1), block |-> "air"]

\* what the two queries of one ray can answer: [outline, collider]
RayAnswers ==
    << [outline |-> Miss, collider |-> Miss],
       [outline |-> Hit("ladder", 3, 1), collider |-> Hit("stone", 7, 1)],
       [outline |-> Hit("stone", 5432, 1000), collider |-> Hit("stone", 5432, 1000)],
       [outline |-> Hit("short_grass", 2, 1), collider |-> Miss],
       [outline |-> Hit("water", 1234, 1000), collider |-> Miss],
       [outline |-> Hit("short_grass", 2, 1), collider |-> Hit("stone", 9, 1)],
       [outline |-> Hit("cobweb", 1, 2), collider |-> Hit("cobweb", 1, 2)],
       [outline |-> Miss, collider |-> Hit("stone", 63999, 1000)] >>

\* a world for an h x w grid: cell (r, c) takes answer seed + stride * index
RayWorld(w, h, seed, stride) ==
    [r \in 0..(h - 1) |-> [c \in 0..(w - 1) |->
        RayAnswers[((seed + stride * (r * w + c)) % Len(RayAnswers)) + 1]]]

\* mutant of SpecialBlockHit: any block the outline query hits is recorded
SpecialBlockHitAnyBlock(hitOutline) == hitOutline.type = "BLOCK"

\* specialBlockHit after the outline query
SpecialBlockHit(hitOutline) ==
    /\ hitOutline.type = "BLOCK"
    /\ hitOutline.block \in SPECIAL_NON_COLLIDABLE_BLOCKS

\* the body of the two loops for one cell: the value assigned to
\* distances[r][c] and blockStates[r][c], the queries made, the assignments
RayCell(answers) ==
    LET hitOutline == answers.outline
    IN  IF SpecialBlockHit(hitOutline)
        THEN [distance |-> Float32(hitOutline.dist),
              blockState |-> getRawIdFromState(hitOutline.block),
              queries |-> <<"OUTLINE">>, writes |-> 1]
        ELSE LET hitCollider == answers.collider
             IN  IF hitCollider.type = "BLOCK"
                 THEN [distance |-> Float32(hitCollider.dist),
                       blockState |-> getRawIdFromState(hitCollider.block),
                       queries |-> <<"OUTLINE", "COLLIDER">>, writes |-> 1]
                 ELSE [distance |-> Float32(Rat(MAX_RAYCAST_DISTANCE, 1)),
                       blockState |-> 0,
                       queries |-> <<"OUTLINE", "COLLIDER">>, writes |-> 1]

\* one pass of the inner loop body, then c++ (and r++ at the end of a row)
castRay ==
    /\ rayR < rayGrid.h
    /\ LET cell == RayCell(rayWorld[rayR][rayC])
       IN  /\ distances' = [distances EXCEPT ![rayR][rayC] = cell.distance]
           /\ blockStates' = [blockStates EXCEPT ![rayR][rayC] = cell.blockState]
           /\ rayQueries' = [rayQueries EXCEPT ![rayR][rayC] = @ \o cell.queries]
           /\ rayWrites' = [rayWrites EXCEPT ![rayR][rayC] = @ + cell.writes]
    /\ IF rayC + 1 < rayGrid.w
       THEN rayC' = rayC + 1 /\ rayR' = rayR
       ELSE rayC' = 0 /\ rayR' = rayR + 1
    /\ UNCHANGED <<rayGrid, rayWorld, notRayVars>>

\* the state when the loops start: both arrays freshly allocated (zeros)
InitRays ==
    /\ PipeIdle /\ FnIdle /\ RecInit
    /\ \E w \in 1..MaxW, h \in 1..MaxH :
          /\ rayGrid = [w |-> w, h |-> h]
          /\ \E seed \in 0..(Len(RayAnswers) - 1), stride \in 0..(Len(RayAnswers) - 1) :
                rayWorld = RayWorld(w, h, seed, stride)
          /\ distances = [r \in 0..(h - 1) |-> [c \in 0..(w - 1) |->
                             [s |-> 0, e |-> 0, m |-> 0]]]
          /\ blockStates = [r \in 0..(h - 1) |-> [c \in 0..(w - 1) |-> 0]]
          /\ rayQueries = [r \in 0..(h - 1) |-> [c \in 0..(w - 1) |-> <<>>]]
          /\ rayWrites = [r \in 0..(h - 1) |-> [c \in 0..(w - 1) |-> 0]]
    /\ rayR = 0
    /\ rayC = 0

NextRays == castRay

SpecRays == InitRays /\ [][NextRays]_vars

----------------------------------------------------------------------------
(* C17: two-stage hit test *)

\* the loops have passed cell (r, c)
RayCast(r, c) == r < rayR \/ (r = rayR /\ c < rayC)

\* C17: for every ray cast so far: if the outline query hit a special block,
\* that hit's distance (as a float) and block id are in the cell and only
\* the outline query was made; otherwise the collider query was made second
\* and the cell holds its hit, or 64 and 0 if it missed too.  Each such cell
\* was assigned once, with at most two queries; no other cell was touched.
C17_TwoStage ==
    \A r \in 0..(rayGrid.h - 1), c \in 0..(rayGrid.w - 1) :
        LET o == rayWorld[r][c].outline
            s == rayWorld[r][c].collider
        IN  IF ~RayCast(r, c)
            THEN rayWrites[r][c] = 0 /\ rayQueries[r][c] = <<>>
            ELSE /\ rayWrites[r][c] = 1
                 /\ Len(rayQueries[r][c]) <= 2
                 /\ IF o.type = "BLOCK" /\ o.block \in SPECIAL_NON_COLLIDABLE_BLOCKS
                    THEN /\ rayQueries[r][c] = <<"OUTLINE">>
                         /\ distances[r][c] = Float32(o.dist)
                         /\ blockStates[r][c] = getRawIdFromState(o.block)
                    ELSE /\ rayQueries[r][c] = <<"OUTLINE", "COLLIDER">>
                         /\ s.type = "BLOCK" =>
                               /\ distances[r][c] = Float32(s.dist)
                               /\ blockStates[r][c] = getRawIdFromState(s.block)
                         /\ s.type # "BLOCK" =>
                               /\ FloatIsRat(distances[r][c], Rat(64, 1))
                               /\ blockStates[r][c] = 0


\* the grid is complete and held a ray of each kind: a special block taken
\* from the outline query, a collider hit behind a block that is not
\* special, and a ray that both queries missed
C17_Witness ==
    /\ rayR = rayGrid.h /\ rayGrid.h > 0
    /\ \E r \in 0..(rayGrid.h - 1), c \in 0..(rayGrid.w - 1) :
          /\ rayQueries[r][c] = <<"OUTLINE">>
          /\ blockStates[r][c] = 2
    /\ \E r \in 0..(rayGrid.h - 1), c \in 0..(rayGrid.w - 1) :
          /\ rayWorld[r][c].outline.type = "BLOCK"
          /\ rayQueries[r][c] = <<"OUTLINE", "COLLIDER">>
          /\ blockStates[r][c] = 1
    /\ \E r \in 0..(rayGrid.h - 1), c \in 0..(rayGrid.w - 1) :
          /\ rayWorld[r][c].outline.type = "MISS"
          /\ rayWorld[r][c].collider.type = "MISS"
          /\ FloatIsRat(distances[r][c], Rat(64, 1))


----------------------------------------------------------------------------
(* Specification: the proprioceptive vector of one tick *)

\* velocities, yaws and heights in thousandths; fall-zone heights in blocks
VelocityInputs ==
    {-64000, -3000, -1001, -1000, -999, -78, -1, 0, 1, 333, 1000, 1001, 1500,
     64000}
YawInputs ==
    {-725500, -180000, -179999, 0, 90500, 180000, 180001, 359999, 36000500}
TargetYawInputs == {0, 90500, -179999}
HeightInputs ==
    {-64000, 49999, 50000, 58123, 60000, 69999, 70000, 70001, 320000}
FallYInputs == {60, -64}

\* the ticks and run metadata the vector is computed for
ProprioInputs ==
    { [tickData |-> [vx |-> vx, vy |-> -vx, vz |-> vx \div 2, y |-> y,
                     g |-> g, ch |-> ch, cv |-> ~g, py |-> py],
       targetYaw |-> ty, targetFallY |-> tfy] :
        vx \in VelocityInputs, y \in YawInputs, g \in BOOLEAN, ch \in BOOLEAN,
        py \in HeightInputs, ty \in TargetYawInputs, tfy \in FallYInputs }

\* lines 128-137 of processFile on one tick
buildProprio ==
    /\ fnDone = "none"
    /\ fnRes' = ProprioVector(fnArg.tickData, fnArg.targetYaw, fnArg.targetFallY)
    /\ fnDone' = "ProprioVector"
    /\ UNCHANGED <<fnArg, notFnVars>>

InitProprio ==
    /\ PipeIdle /\ RayIdle /\ RecInit
    /\ fnArg \in ProprioInputs /\ fnRes = 0 /\ fnDone = "none"

NextProprio == buildProprio

SpecProprio == InitProprio /\ [][NextProprio]_vars

----------------------------------------------------------------------------
(* C18: range of the proprioceptive vector *)

\* the rational x lies in [-1, 1]
InUnitRange(x) == -x.d <= x.n /\ x.n <= x.d

\* x is the number v / scale clamped to [-1, 1]
IsClamped(x, v, scale) ==
    /\ InUnitRange(x)
    /\ (-scale <= v /\ v <= scale) => x.n * scale = v * x.d
    /\ v > scale => x.n = x.d
    /\ v < -scale => x.n = -x.d

\* C18: the vector has 8 components, all in [-1, 1]: the three velocities
\* and the relative height are the scaled inputs clamped to [-1, 1], the
\* relative yaw is in (-1, 1], and the three contact flags are 0 or 1.
C18_ProprioRange ==
    fnDone = "ProprioVector" =>
        LET t == fnArg.tickData
        IN  /\ Len(fnRes) = 8
            /\ \A q \in 1..8 : fnRes[q].d > 0 /\ InUnitRange(fnRes[q])
            /\ IsClamped(fnRes[1], t.vx, 1000)
            /\ IsClamped(fnRes[2], t.vy, 1000)
            /\ IsClamped(fnRes[3], t.vz, 1000)
            /\ -fnRes[4].d < fnRes[4].n
            /\ fnRes[4].d = 180000
            /\ (fnRes[4].n - (t.y - fnArg.targetYaw)) % 360000 = 0
            /\ fnRes[5] = (IF t.g THEN Rat(1, 1) ELSE Rat(0, 1))
            /\ fnRes[6] = (IF t.ch THEN Rat(1, 1) ELSE Rat(0, 1))
            /\ fnRes[7] = (IF t.cv THEN Rat(1, 1) ELSE Rat(0, 1))
            /\ IsClamped(fnRes[8], t.py - fnArg.targetFallY * 1000, 10000)

\* a tick with a velocity of 64, a yaw a hundred turns away and a height far
\* above the fall zone gave components at both ends of the range
C18_Witness ==
    /\ fnDone = "ProprioVector"
    /\ fnArg.tickData.vx = 64000
    /\ fnArg.tickData.y = 36000500
    /\ fnArg.tickData.py = 320000
    /\ fnRes[1].n = fnRes[1].d
    /\ fnRes[2].n = -fnRes[2].d
    /\ fnRes[8].n = fnRes[8].d


----------------------------------------------------------------------------
(* The capture mod's client: RLParkourCaptureClient.java.  A chat message
   is the number of the source line that sends it.  Log lines and the
   fall-zone warning (checkAndSendFallZoneWarning with lastWarningTick) do
   not act on the recording and are left out.  The
   functions below take and return the client's fields as a record; env is
   what the game presents on one client tick. *)

\* most client ticks of a behaviour, and most unconsumed presses of one key
MaxClientTicks == 4
MaxPresses == 2

\* yaws (thousandths of a degree) and heights (thousandths of a block) of
\* the player
PlayerYaws == {0, 90500}
PlayerHeights == {64990, -3200}

\* the client's fields
ClientState ==
    [isRecording |-> isRecording, recordedData |-> recordedData,
     targetBearingYaw |-> targetBearingYaw, fallZoneY |-> fallZoneY,
     recordingStartTimeMillis |-> recordingStartTimeMillis,
     savedRun |-> savedRun, chat |-> <<>>]

\* sendMessage(client, ...) called at the given source line
sendMessage(st, env, line) ==
    IF env.playerPresent THEN [st EXCEPT !.chat = Append(@, line)] ELSE st

\* MathHelper.floor of a height in thousandths
FloorBlocks(y) == y \div 1000

\* ParkourTickData.capture(client, fallZoneY, ...): the record of this tick
\* (its number stands for the fields read from the player; g is isOnGround;
\* fz is the fall zone Y the call was given, from which it computes
\* distanceToFallZoneY)
capture(env, fz) == [tick |-> env.now, g |-> env.onGround, fz |-> fz]

\* the index (from 0) of the last record with isOnGround, or -1
RECURSIVE LastOnGroundIndex(_, _)
LastOnGroundIndex(data, i) ==
    IF i < 0 THEN -1
    ELSE IF data[i + 1].g THEN i
    ELSE LastOnGroundIndex(data, i - 1)

\* mutant of filterData: one record after the last ground contact is kept
filterDataKeepNext(data) ==
    IF data = <<>> THEN data
    ELSE LET lastOnGroundIndex == LastOnGroundIndex(data, Len(data) - 1)
         IN  IF lastOnGroundIndex # -1 /\ lastOnGroundIndex < Len(data) - 1
             THEN SubSeq(data, 1, lastOnGroundIndex + 2)
             ELSE data

\* filterData: the records after the last ground contact are removed
filterData(data) ==
    IF data = <<>> THEN data
    ELSE LET lastOnGroundIndex == LastOnGroundIndex(data, Len(data) - 1)
         IN  IF lastOnGroundIndex # -1 /\ lastOnGroundIndex < Len(data) - 1
             THEN SubSeq(data, 1, lastOnGroundIndex + 1)
             ELSE data

\* saveDataToFile: the ParkourRunData written, or no file on an early
\* return or when the write throws
saveDataToFile(st, env) ==
    IF st.recordedData = <<>> THEN sendMessage(st, env, 212)
    ELSE IF st.targetBearingYaw = <<>> THEN sendMessage(st, env, 218)
    ELSE IF ~env.saveOk THEN sendMessage(st, env, 277)
    ELSE sendMessage(
             [st EXCEPT !.savedRun =
                 <<[ts |-> st.recordingStartTimeMillis, te |-> env.now,
                    ty |-> st.targetBearingYaw[1], tfy |-> st.fallZoneY[1],
                    d |-> st.recordedData]>>], env, 274)

startRecording(st, env) ==
    IF st.fallZoneY = <<>> THEN sendMessage(st, env, 133)
    ELSE IF ~env.playerPresent THEN sendMessage(st, env, 137)
    ELSE sendMessage(
             [sendMessage([st EXCEPT !.targetBearingYaw = <<env.yaw>>], env, 143)
                 EXCEPT !.isRecording = TRUE,
                        !.recordedData = <<>>,
                        !.recordingStartTimeMillis = env.now], env, 151)

\* mutant of stopRecording: the buffer is not cleared after the stop
stopRecordingNoClear(st, env, saveData) ==
    IF ~st.isRecording THEN st
    ELSE LET stopped == sendMessage([st EXCEPT !.isRecording = FALSE], env, 159)
             saved == IF saveData /\ stopped.recordedData # <<>>
                      THEN saveDataToFile(
                               [stopped EXCEPT !.recordedData = filterData(@)], env)
                      ELSE IF saveData /\ stopped.recordedData = <<>>
                      THEN sendMessage(stopped, env, 166)
                      ELSE stopped
         IN  [saved EXCEPT !.recordingStartTimeMillis = 0,
                           !.targetBearingYaw = <<>>]

\* mutant of stopRecording: the target yaw is kept after the stop
stopRecordingKeepYaw(st, env, saveData) ==
    IF ~st.isRecording THEN st
    ELSE LET stopped == sendMessage([st EXCEPT !.isRecording = FALSE], env, 159)
             saved == IF saveData /\ stopped.recordedData # <<>>
                      THEN saveDataToFile(
                               [stopped EXCEPT !.recordedData = filterData(@)], env)
                      ELSE IF saveData /\ stopped.recordedData = <<>>
                      THEN sendMessage(stopped, env, 166)
                      ELSE stopped
         IN  [saved EXCEPT !.recordedData = <<>>,
                           !.recordingStartTimeMillis = 0]

stopRecording(st, env, saveData) ==
    IF ~st.isRecording THEN st
    ELSE LET stopped == sendMessage([st EXCEPT !.isRecording = FALSE], env, 159)
             saved == IF saveData /\ stopped.recordedData # <<>>
                      THEN saveDataToFile(
                               [stopped EXCEPT !.recordedData = filterData(@)], env)
                      ELSE IF saveData /\ stopped.recordedData = <<>>
                      THEN sendMessage(stopped, env, 166)
                      ELSE stopped
         IN  [saved EXCEPT !.recordedData = <<>>,
                           !.recordingStartTimeMillis = 0,
                           !.targetBearingYaw = <<>>]

toggleRecording(st, env) ==
    IF st.isRecording THEN stopRecording(st, env, TRUE)
    ELSE startRecording(st, env)

\* mutant of setFallZoneY: the key also works while recording
setFallZoneYAlways(st, env) ==
    IF env.playerPresent
    THEN sendMessage([st EXCEPT !.fallZoneY = <<FloorBlocks(env.playerY)>>],
                     env, 184)
    ELSE st

setFallZoneY(st, env) ==
    IF st.isRecording THEN sendMessage(st, env, 179)
    ELSE IF env.playerPresent
    THEN sendMessage([st EXCEPT !.fallZoneY = <<FloorBlocks(env.playerY)>>],
                     env, 184)
    ELSE st

\* while (keyToggleRecording.wasPressed()) toggleRecording(client)
RECURSIVE ToggleLoop(_, _, _)
ToggleLoop(st, env, presses) ==
    IF presses = 0 THEN st
    ELSE ToggleLoop(toggleRecording(st, env), env, presses - 1)

\* while (keySetFallZoneY.wasPressed()) setFallZoneY(client)
RECURSIVE FallZoneLoop(_, _, _)
FallZoneLoop(st, env, presses) ==
    IF presses = 0 THEN st
    ELSE FallZoneLoop(setFallZoneY(st, env), env, presses - 1)

handleKeybindings(st, env, toggles, fallZones) ==
    FallZoneLoop(ToggleLoop(st, env, toggles), env, fallZones)

\* mutant of CaptureTick: the record is added twice
CaptureTickTwice(st, env) ==
    IF st.isRecording
    THEN [st EXCEPT !.recordedData =
             @ \o <<capture(env, st.fallZoneY), capture(env, st.fallZoneY)>>]
    ELSE st

\* the capture part of onClientTick
CaptureTick(st, env) ==
    IF st.isRecording
    THEN [st EXCEPT !.recordedData = Append(@, capture(env, st.fallZoneY))]
    ELSE st

\* mutant of OnClientTick: the stop for a missing player or world saves
OnClientTickSaveOnNull(st, env, toggles, fallZones) ==
    IF ~env.playerPresent \/ ~env.worldPresent
    THEN [st |-> IF st.isRecording THEN stopRecording(st, env, TRUE) ELSE st,
          handled |-> FALSE]
    ELSE [st |-> CaptureTick(handleKeybindings(st, env, toggles, fallZones), env),
          handled |-> TRUE]

\* onClientTick on the fields st: [st, handled]; handled tells whether
\* handleKeybindings ran and consumed the pending presses
OnClientTick(st, env, toggles, fallZones) ==
    IF ~env.playerPresent \/ ~env.worldPresent
    THEN [st |-> IF st.isRecording THEN stopRecording(st, env, FALSE) ELSE st,
          handled |-> FALSE]
    ELSE [st |-> CaptureTick(handleKeybindings(st, env, toggles, fallZones), env),
          handled |-> TRUE]

\* one END_CLIENT_TICK event
onClientTick ==
    /\ clientTick < MaxClientTicks
    /\ \E playerPresent \in BOOLEAN, worldPresent \in BOOLEAN,
          yaw \in PlayerYaws, playerY \in PlayerHeights,
          onGround \in BOOLEAN, saveOk \in BOOLEAN :
          LET env == [playerPresent |-> playerPresent,
                      worldPresent |-> worldPresent, yaw |-> yaw,
                      playerY |-> playerY, onGround |-> onGround,
                      saveOk |-> saveOk, now |-> clientTick + 1]
              res == OnClientTick(ClientState, env, pendingToggle,
                                  pendingFallZone)
          IN  /\ isRecording' = res.st.isRecording
              /\ recordedData' = res.st.recordedData
              /\ targetBearingYaw' = res.st.targetBearingYaw
              /\ fallZoneY' = res.st.fallZoneY
              /\ recordingStartTimeMillis' = res.st.recordingStartTimeMillis
              /\ savedRun' = res.st.savedRun
              /\ chat' = res.st.chat
              /\ client' = [player |-> playerPresent, world |-> worldPresent]
              /\ pendingToggle' = IF res.handled THEN 0 ELSE pendingToggle
              /\ pendingFallZone' = IF res.handled THEN 0 ELSE pendingFallZone
    /\ clientTick' = clientTick + 1
    /\ UNCHANGED notRecVars

\* the user presses the toggle-recording key (F8)
pressToggleRecording ==
    /\ pendingToggle < MaxPresses
    /\ pendingToggle' = pendingToggle + 1
    /\ UNCHANGED <<isRecording, recordedData, targetBearingYaw, fallZoneY,
                   recordingStartTimeMillis, pendingFallZone, clientTick,
                   savedRun, chat, client, notRecVars>>

\* the user presses the set-fall-zone key (F10)
pressSetFallZoneY ==
    /\ pendingFallZone < MaxPresses
    /\ pendingFallZone' = pendingFallZone + 1
    /\ UNCHANGED <<isRecording, recordedData, targetBearingYaw, fallZoneY,
                   recordingStartTimeMillis, pendingToggle, clientTick,
                   savedRun, chat, client, notRecVars>>

InitRecord == PipeIdle /\ FnIdle /\ RayIdle /\ RecInit

NextRecord ==
    \/ onClientTick
    \/ pressToggleRecording
    \/ pressSetFallZoneY

SpecRecord == InitRecord /\ [][NextRecord]_vars

\* C19: run metadata is constant during a run.  On every step on which a
\* recording continues (recording before and after, no toggle press to
\* consume) the target yaw and the fall zone Y keep their values; no step
\* that ends in a recording changes the fall zone Y, so a set-fall-zone
\* press consumed while recording (message 179) changes nothing; and a run
\* file written by a stop carries the target yaw and the fall zone Y the
\* recording had.
C19_MetadataConstant ==
    [][ /\ (isRecording /\ isRecording' /\ pendingToggle = 0)
             => /\ targetBearingYaw' = targetBearingYaw
                /\ fallZoneY' = fallZoneY
                /\ targetBearingYaw # <<>>
        /\ isRecording' => fallZoneY' = fallZoneY
        /\ (\E i \in 1..Len(chat') : chat'[i] = 179)
             => fallZoneY' = fallZoneY
        /\ savedRun' # savedRun
             => /\ isRecording
                /\ savedRun' = <<[ts |-> recordingStartTimeMillis,
                                  te |-> clientTick',
                                  ty |-> targetBearingYaw[1],
                                  tfy |-> fallZoneY[1],
                                  d |-> savedRun'[1].d]>>
      ]_vars

\* a recording of three ticks on whose last tick a set-fall-zone press was
\* refused while the player stood at a height other than the fall zone Y
C19_Witness ==
    /\ isRecording
    /\ Len(recordedData) >= 3
    /\ chat = <<179>>
    /\ fallZoneY = <<64>>
    /\ targetBearingYaw = <<90500>>

\* the records are those of consecutive client ticks, the first of tick
\* first, in order: one per tick, no gap, no duplicate
ConsecutiveTicks(data, first) ==
    \A i \in 1..Len(data) : data[i].tick = first + i - 1

\* C20: while a recording is active, a client tick with player and world
\* present appends exactly one Tick Record to the end of the list.  On a
\* tick step after which the recording is active the list ends with this
\* tick's record and holds the records of consecutive ticks; when the
\* recording was active before and no toggle press was pending, the list is
\* the old one with exactly that record appended; a key press alone leaves
\* the list alone; and a run file written holds the records of consecutive
\* ticks from the tick of the start.
C20_OneRecordPerTick ==
    [][ /\ isRecording'
             => /\ Len(recordedData') >= 1
                /\ ConsecutiveTicks(recordedData',
                                    clientTick' - Len(recordedData') + 1)
        /\ (clientTick' = clientTick + 1 /\ isRecording /\ isRecording'
                /\ pendingToggle = 0)
             => /\ Len(recordedData') = Len(recordedData) + 1
                /\ SubSeq(recordedData', 1, Len(recordedData)) = recordedData
                /\ recordedData'[Len(recordedData')].tick = clientTick'
        /\ clientTick' = clientTick => recordedData' = recordedData
        /\ savedRun' # savedRun
             => /\ Len(savedRun'[1].d) >= 1
                /\ ConsecutiveTicks(savedRun'[1].d, savedRun'[1].ts)
      ]_vars

\* a recording started on tick 2 that holds the records of ticks 2, 3, 4
C20_Witness ==
    /\ isRecording
    /\ clientTick = 4
    /\ Len(recordedData) = 3
    /\ recordedData[1].tick = 2
    /\ recordedData[3].tick = 4
    /\ recordingStartTimeMillis = 2

\* C22: a recording is active iff the target yaw is set; an active
\* recording implies the fall zone Y is set; and every call of capture,
\* those of a saved run included, was given a set fall zone Y.
C22_SessionInvariant ==
    /\ isRecording <=> targetBearingYaw # <<>>
    /\ isRecording => fallZoneY # <<>>
    /\ \A i \in 1..Len(recordedData) : recordedData[i].fz = fallZoneY
                                         /\ recordedData[i].fz # <<>>
    /\ savedRun # <<>> => \A i \in 1..Len(savedRun[1].d) :
                             savedRun[1].d[i].fz = <<savedRun[1].tfy>>

\* a second recording, started after a first one was saved: yaw and fall
\* zone are set again and the tick was captured with the fall zone
C22_Witness ==
    /\ isRecording
    /\ savedRun # <<>>
    /\ targetBearingYaw # <<>>
    /\ fallZoneY # <<>>
    /\ Len(recordedData) = 1
    /\ recordedData[1].fz = fallZoneY

\* C23: on a client tick that finds the player or the world missing while
\* a recording is active, the recording stops, no file is written, the
\* captured ticks are discarded, no tick is captured, and the pending key
\* presses are not consumed.
C23_StopWithoutSave ==
    [][ (clientTick' = clientTick + 1 /\ isRecording
            /\ (~client'.player \/ ~client'.world))
          => /\ ~isRecording'
             /\ savedRun' = savedRun
             /\ recordedData' = <<>>
             /\ targetBearingYaw' = <<>>
             /\ recordingStartTimeMillis' = 0
             /\ fallZoneY' = fallZoneY
             /\ pendingToggle' = pendingToggle
             /\ pendingFallZone' = pendingFallZone
             /\ \A i \in 1..Len(chat') : chat'[i] = 159
      ]_vars

\* the world went missing (the player still there, so the stop message 159
\* arrived) on tick 4 of a behaviour that has never saved a run
C23_Witness ==
    /\ clientTick = 4
    /\ client = [player |-> TRUE, world |-> FALSE]
    /\ chat = <<159>>
    /\ ~isRecording
    /\ recordedData = <<>>
    /\ savedRun = <<>>

\* the positions of the records with onGround = true
GroundTicks(data) == {i \in 1..Len(data) : data[i].g}

\* the greatest element of a non-empty set of integers
Greatest(S) == CHOOSE x \in S : \A y \in S : y <= x

\* C24: the tick list of a run written by a stop with save is the captured
\* list cut after its last record with onGround = true (the records before
\* it kept, in order), or the whole captured list when no record is on the
\* ground.
C24_TailFilter ==
    [][ savedRun' # savedRun
          => IF GroundTicks(recordedData) = {}
             THEN savedRun'[1].d = recordedData
             ELSE /\ savedRun'[1].d =
                         SubSeq(recordedData, 1, Greatest(GroundTicks(recordedData)))
                  /\ savedRun'[1].d[Len(savedRun'[1].d)].g
                  /\ \A i \in (Len(savedRun'[1].d) + 1)..Len(recordedData) :
                         ~recordedData[i].g
      ]_vars

\* a run of ticks 2 and 3, stopped on tick 4, saved with tick 2 only: tick 3
\* was in the air and was removed
C24_Witness ==
    /\ savedRun # <<>>
    /\ savedRun[1].ts = 2
    /\ savedRun[1].te = 4
    /\ Len(savedRun[1].d) = 1
    /\ savedRun[1].d[1].g
    /\ savedRun[1].d[1].tick = 2

\* C25: runs do not leak into each other.  Whenever no recording is active
\* the tick buffer is empty; the buffer of an active recording holds only
\* ticks from its own start on; and a saved run holds only ticks captured
\* from its own start up to, not including, the tick of its stop.
C25_NoLeak ==
    /\ ~isRecording => recordedData = <<>>
    /\ isRecording => \A i \in 1..Len(recordedData) :
                          /\ recordedData[i].tick >= recordingStartTimeMillis
                          /\ recordedData[i].tick <= clientTick
    /\ savedRun # <<>> => \A i \in 1..Len(savedRun[1].d) :
                              /\ savedRun[1].d[i].tick >= savedRun[1].ts
                              /\ savedRun[1].d[i].tick < savedRun[1].te

\* tick 3 stopped and saved the run of tick 2 and started the next run:
\* the buffer holds the record of tick 3 alone
C25_Witness ==
    /\ isRecording
    /\ clientTick = 3
    /\ recordingStartTimeMillis = 3
    /\ savedRun # <<>>
    /\ savedRun[1].ts = 2
    /\ savedRun[1].te = 3
    /\ Len(savedRun[1].d) = 1
    /\ Len(recordedData) = 1
    /\ recordedData[1].tick = 3

----------------------------------------------------------------------------
(* Specification: the vision grid height for a configured field of view.
   ParkourTickData computes VISION_GRID_HEIGHT once from its constants;
   the constants are parameters here so that other configurations can be
   examined.  Angles are whole degrees. *)

VISION_GRID_WIDTH == 36
VISION_FOV_DEGREES == 120
VERTICAL_FOV_DEGREES == 180

\* horizontal and vertical fields of view examined
HorizontalFovs == {-120, -60, -1, 0, 1, 30, 60, 90, 120, 180, 360}
VerticalFovs == {-90, 0, 1, 45, 90, 120, 180, 360}
FovInputs == [h : HorizontalFovs, v : VerticalFovs]

\* Math.round(float): floor(x + 1/2), for x = num / den with den > 0.  The
\* float quotient of these inputs is nearer to num / den than num / den is
\* to a half-integer, so the exact quotient rounds as the float one.
MathRound(num, den) == (2 * num + den) \div (2 * den)

\* calculateVisionGridHeight with the constants as parameters: the height
\* and whether the error line was printed
calculateVisionGridHeight(hFov, vFov) ==
    IF hFov <= 0
    THEN [height |-> 1, err |-> TRUE]
    ELSE [height |-> MathRound(VISION_GRID_WIDTH * vFov, hFov), err |-> FALSE]

\* class initialisation followed by the allocation in performVisionRaycasts:
\* new float[VISION_GRID_HEIGHT][VISION_GRID_WIDTH] raises for a negative
\* height; otherwise the grid has VISION_GRID_HEIGHT rows
sampleGridShape ==
    /\ fnDone = "none"
    /\ LET res == calculateVisionGridHeight(fnArg.h, fnArg.v)
       IN  fnRes' = [height |-> res.height, err |-> res.err,
                     raised |-> res.height < 0,
                     rows |-> IF res.height < 0 THEN 0 ELSE res.height]
    /\ fnDone' = "calculateVisionGridHeight"
    /\ UNCHANGED <<fnArg, notFnVars>>

InitFov ==
    /\ PipeIdle /\ RayIdle /\ RecInit
    /\ fnArg \in FovInputs /\ fnRes = 0 /\ fnDone = "none"

NextFov == sampleGridShape

SpecFov == InitFov /\ [][NextFov]_vars

----------------------------------------------------------------------------
(* C21: degenerate field of view *)

\* C21: when the horizontal or the vertical field of view is zero the
\* sampler reports a grid of one row, logs a configuration error and does
\* not raise.
C21_ZeroFov ==
    (fnDone = "calculateVisionGridHeight" /\ (fnArg.h = 0 \/ fnArg.v = 0))
        => /\ fnRes.height = 1
           /\ fnRes.rows = 1
           /\ fnRes.err
           /\ ~fnRes.raised

\* the part of C21 the code meets: a horizontal field of view of zero (or
\* less) gives one row and the error line
C21_ZeroHorizontalFov ==
    (fnDone = "calculateVisionGridHeight" /\ fnArg.h <= 0)
        => /\ fnRes.height = 1
           /\ fnRes.rows = 1
           /\ fnRes.err
           /\ ~fnRes.raised

\* the shipped configuration gives 54 rows and no error line
C21_ShippedHeight ==
    (fnDone = "calculateVisionGridHeight"
        /\ fnArg.h = VISION_FOV_DEGREES /\ fnArg.v = VERTICAL_FOV_DEGREES)
        => fnRes = [height |-> 54, err |-> FALSE, raised |-> FALSE, rows |-> 54]

----------------------------------------------------------------------------
(* C26: decoder count consistency *)

\* C26: after the load, whatever its outcome (complete file, truncated
\* file, file longer than declared, fatal header error), totalFrames equals
\* the number of frames stored in frameDataForFrontend; the count printed
\* by the closing line of a load that did not fail is the same number, and
\* a failed load reports zero frames and stores none.
C26_CountConsistent ==
    viewStatus # "idle" =>
        /\ totalFrames = Len(frameDataForFrontend)
        /\ \A i \in 1..Len(consoleLog) :
              consoleLog[i].line = 243 => consoleLog[i].parsedFrames = totalFrames
        /\ viewStatus = "failed" => totalFrames = 0

\* a file of 100 bytes whose header declares one window of 35 bytes: the
\* file is longer than declared, and one frame is reported and stored
C26_Witness ==
    /\ viewStatus = "loaded"
    /\ bufferLength = 100
    /\ visionWidth = 1 /\ visionHeight = 1 /\ sequenceLengthK = 1
    /\ totalFrames = 1
    /\ Len(frameDataForFrontend) = 1
    /\ \E i \in 1..Len(consoleLog) : consoleLog[i].line = 163

----------------------------------------------------------------------------
(* The JSON encoder: processFile of data-normalizer/index.js.  It keeps its
   own copies of clamp, normalizeAngle and getBlockType, identical to the
   binary encoder's, and builds nested arrays instead of flat buffers. *)

\* the first-tick test of the dimension inference
JsonFirstTickInvalid(ticks) == Len(ticks[1].vd) = 0

\* the check made before the distance grid of a tick is processed
JsonDistDimsOk(tickData, width, height) ==
    /\ Len(tickData.vd) = height
    /\ Len(tickData.vd) > 0 /\ Len(tickData.vd[1]) = width

\* mutant of JsonBlockDimsOk: the block grid is not checked
JsonBlockDimsUnchecked(tickData, width, height) == TRUE

\* the check made before the block grid of a tick is processed
JsonBlockDimsOk(tickData, width, height) ==
    /\ Len(tickData.vb) = height
    /\ Len(tickData.vb) > 0 /\ Len(tickData.vb[1]) = width

\* 1. visionDistGridBytes: rows of clamped, scaled, rounded distances
JsonDistGrid(tickData, width, height) ==
    [r \in 1..height |-> [c \in 1..width |->
        LET distBlocks == clamp(tickData.vd[r][c], 0, MAX_RAYCAST_DISTANCE_BLOCKS)
            distUnits  == RoundTenths(distBlocks)
        IN  clamp(distUnits, 0, MAX_RAYCAST_DISTANCE_UNITS)]]

\* 2. visionBlockIdGridBytes: rows of block types
JsonBlockGrid(tickData, width, height) ==
    [r \in 1..height |-> [c \in 1..width |-> getBlockType(tickData.vb[r][c])]]

\* 3. proprioVector, in the order of its push calls
JsonProprioVector(tickData, targetYaw, targetFallY) ==
    LET deltaYaw == normalizeAngle(tickData.y - targetYaw)
        deltaY   == tickData.py - targetFallY * 1000
    IN  << Rat(clamp(tickData.vx, -MAX_VELOCITY, MAX_VELOCITY), MAX_VELOCITY),
           Rat(clamp(tickData.vy, -MAX_VELOCITY, MAX_VELOCITY), MAX_VELOCITY),
           Rat(clamp(tickData.vz, -MAX_VELOCITY, MAX_VELOCITY), MAX_VELOCITY),
           Rat(deltaYaw, 180000),
           IF tickData.g THEN Rat(1, 1) ELSE Rat(0, 1),
           IF tickData.ch THEN Rat(1, 1) ELSE Rat(0, 1),
           IF tickData.cv THEN Rat(1, 1) ELSE Rat(0, 1),
           Rat(clamp(deltaY, -MAX_REL_HEIGHT, MAX_REL_HEIGHT), MAX_REL_HEIGHT) >>

\* 4. action_t of the last tick: seven numbers, 1 or 0
JsonActionT(lastTickData) ==
    << IF lastTickData.f THEN 1 ELSE 0,
       IF lastTickData.l THEN 1 ELSE 0,
       IF lastTickData.r THEN 1 ELSE 0,
       IF lastTickData.b THEN 1 ELSE 0,
       IF lastTickData.j THEN 1 ELSE 0,
       IF lastTickData.n THEN 1 ELSE 0,
       IF lastTickData.s THEN 1 ELSE 0 >>

\* the inner loop ran to its end: no tick of the window failed the distance
\* check or, after its distance grid was processed, the block check
JsonSequenceValid(ticks, t, width, height) ==
    \A offset \in 0..(K - 1) :
        LET tickData == ticks[(t - K + 1 + offset) + 1]
        IN  /\ JsonDistDimsOk(tickData, width, height)
            /\ JsonBlockDimsOk(tickData, width, height)

\* the sequence object pushed for anchor t; the field t records the anchor
JsonBuildSequence(data, t, width, height) ==
    LET tick(offset) == data.d[(t - K + 1 + offset) + 1]
    IN  [vision_dist_seq |->
            [o \in 1..K |-> JsonDistGrid(tick(o - 1), width, height)],
         vision_block_id_seq |->
            [o \in 1..K |-> JsonBlockGrid(tick(o - 1), width, height)],
         proprio_seq |->
            [o \in 1..K |-> JsonProprioVector(tick(o - 1), data.ty, data.tfy)],
         action_t |-> JsonActionT(data.d[t + 1]),
         t |-> t]

\* the sequence loop: anchors t .. Len(ticks)-1 in order, invalid ones skipped
RECURSIVE JsonSequenceLoop(_, _, _, _)
JsonSequenceLoop(data, t, width, height) ==
    IF t >= Len(data.d) THEN <<>>
    ELSE (IF JsonSequenceValid(data.d, t, width, height)
          THEN <<JsonBuildSequence(data, t, width, height)>>
          ELSE <<>>)
         \o JsonSequenceLoop(data, t + 1, width, height)

\* processFile of the JSON encoder on the session rawData; writeOk tells
\* whether writeFileSync succeeds
processFileJson ==
    /\ jsonStatus = "idle"
    /\ IF Len(rawData.d) < K \/ JsonFirstTickInvalid(rawData.d)
       THEN /\ jsonStatus' = "skipped"
            /\ jsonSequences' = <<>>
            /\ jsonFile' = jsonFile
       ELSE LET inferredVisionHeight == Len(rawData.d[1].vd)
                inferredVisionWidth  == Len(rawData.d[1].vd[1])
                seqs == JsonSequenceLoop(rawData, K - 1, inferredVisionWidth,
                                         inferredVisionHeight)
            IN  /\ jsonSequences' = seqs
                /\ IF Len(seqs) = 0
                   THEN jsonStatus' = "skipped" /\ jsonFile' = jsonFile
                   ELSE \E writeOk \in BOOLEAN :
                        IF writeOk
                        THEN /\ jsonFile' = [exists |-> TRUE, sequences |-> seqs]
                             /\ jsonStatus' = "saved"
                        ELSE /\ jsonFile' = jsonFile
                             /\ jsonStatus' = "error"
    /\ UNCHANGED <<rawData, notJsonVars>>

\* both encoders are run on the same session, in either order
InitBoth == Init

NextBoth ==
    \/ processFile
    \/ processFileJson

SpecBoth == InitBoth /\ [][NextBoth]_vars

----------------------------------------------------------------------------
(* C27: the two encoders agree *)

\* bit i (from 0) of a byte
BitOf(byte, i) == (byte \div Pow2(i)) % 2

\* C27: once both encoders have processed the same session, they have
\* built windows for the same anchors, in the same order; window by window
\* and tick by tick the quantized distances, the category ids and the
\* proprioceptive values are the same; and flag i of action_t is 1 iff bit
\* i of the action byte is set.  One encoder skips the session iff the
\* other does.
C27_EncodersAgree ==
    (encStatus # "idle" /\ jsonStatus # "idle") =>
        /\ Len(jsonSequences) = Len(processedSequences)
        /\ (jsonStatus = "skipped") <=> (encStatus = "skipped")
        /\ \A i \in 1..Len(jsonSequences) :
            LET js == jsonSequences[i]
                bs == processedSequences[i]
                h  == Len(rawData.d[1].vd)
                w  == Len(rawData.d[1].vd[1])
            IN  /\ js.t = bs.t
                /\ Len(bs.vision_dist_seq_flat) = K * w * h
                /\ Len(bs.vision_block_id_seq_flat) = K * w * h
                /\ \A o \in 1..K, r \in 1..h, c \in 1..w :
                      LET at == (o - 1) * w * h + (r - 1) * w + c
                      IN  /\ js.vision_dist_seq[o][r][c] = bs.vision_dist_seq_flat[at]
                          /\ js.vision_block_id_seq[o][r][c]
                                = bs.vision_block_id_seq_flat[at]
                /\ \A o \in 1..K, q \in 1..8 :
                      js.proprio_seq[o][q] = bs.proprio_seq[o][q]
                /\ \A b \in 0..6 :
                      /\ js.action_t[b + 1] \in {0, 1}
                      /\ js.action_t[b + 1] = 1 <=> BitOf(bs.action_byte, b) = 1
                /\ BitOf(bs.action_byte, 7) = 0

\* a session of six ticks whose first tick has a block grid wider than its
\* distance grid: both encoders drop the window of anchor 3 and build those
\* of anchors 4 and 5
C27_Witness ==
    /\ encStatus = "saved"
    /\ jsonStatus = "saved"
    /\ Len(rawData.d) = 6
    /\ Len(rawData.d[1].vb[1]) # Len(rawData.d[1].vd[1])
    /\ Len(jsonSequences) = 2
    /\ jsonSequences[1].t = 4
    /\ processedSequences[2].t = 5

----------------------------------------------------------------------------
(* The viewer pages: the script viewer.js embeds in the page it serves
   (kind "binary") and the one the JSON viewer of index.js embeds (kind
   "json").  page holds the script's variables (totalFrames,
   currentFrameIndex, isPlaying, intervalId with 0 for null), the disabled
   flags of the controls, and the browser's timer table: timers is the set
   of interval ids that are active, nextTimerId the id the next setInterval
   call returns.  Every handler runs to completion before the next event
   (one thread).  Drawing and text updates are left out; the canvas context
   is taken to exist. *)

REWIND_FF_FRAMES == 20

\* most frames of a page, and most user actions of a behaviour
MaxFrames == 23
MaxUserActions == 4

\* the controls of the page after initialize(): all enabled when frames are
\* loaded, all disabled otherwise (the JSON page has play and reset only)
InitialControls(kind, frames) ==
    LET off == ~(frames > 0)
    IN  [play |-> off, reset |-> off,
         rewind |-> off \/ kind = "json", ff |-> off \/ kind = "json",
         goto |-> off \/ kind = "json", input |-> off \/ kind = "json"]

\* the page after DOMContentLoaded
LoadedPage(kind, frames) ==
    [kind |-> kind, totalFrames |-> frames, currentFrameIndex |-> 0,
     isPlaying |-> FALSE, intervalId |-> 0,
     disabled |-> InitialControls(kind, frames),
     timers |-> {}, nextTimerId |-> 1]

\* updateControlsState(frameIndex) of viewer.js
updateControlsState(ps, frameIndex) ==
    [ps EXCEPT !.disabled =
        [rewind |-> frameIndex <= 0,
         reset  |-> frameIndex <= 0,
         ff     |-> frameIndex >= ps.totalFrames - 1,
         play   |-> frameIndex >= ps.totalFrames - 1 /\ ~ps.isPlaying,
         goto   |-> ps.totalFrames <= 0,
         input  |-> ps.totalFrames <= 0]]

\* updateDisplay(frameIndex) of viewer.js
updateDisplay(ps, frameIndex) ==
    IF frameIndex < 0 \/ frameIndex >= ps.totalFrames THEN ps
    ELSE updateControlsState([ps EXCEPT !.currentFrameIndex = frameIndex],
                             frameIndex)

\* mutant of pausePlayback: the interval is not cleared
pausePlaybackKeepTimer(ps) ==
    IF ~ps.isPlaying THEN ps
    ELSE LET paused == [ps EXCEPT !.isPlaying = FALSE, !.intervalId = 0]
         IN  IF ps.kind = "binary"
             THEN updateControlsState(paused, paused.currentFrameIndex)
             ELSE paused

\* pausePlayback() of either page: clearInterval(intervalId) removes the
\* timer; viewer.js then refreshes its controls
pausePlayback(ps) ==
    IF ~ps.isPlaying THEN ps
    ELSE LET paused == [ps EXCEPT !.isPlaying = FALSE,
                                  !.timers = @ \ {ps.intervalId},
                                  !.intervalId = 0]
         IN  IF ps.kind = "binary"
             THEN updateControlsState(paused, paused.currentFrameIndex)
             ELSE paused

\* resetPlayback() of either page
resetPlayback(ps) ==
    IF ps.kind = "binary"
    THEN updateDisplay(pausePlayback(ps), 0)
    ELSE [pausePlayback(ps) EXCEPT !.currentFrameIndex = 0]

\* startPlayback() of either page: setInterval registers a new timer
startPlayback(ps) ==
    IF ps.isPlaying \/ ps.totalFrames = 0 THEN ps
    ELSE LET from == IF ps.currentFrameIndex >= ps.totalFrames - 1
                     THEN resetPlayback(ps) ELSE ps
         IN  [from EXCEPT !.isPlaying = TRUE,
                          !.disabled.play = FALSE,
                          !.intervalId = from.nextTimerId,
                          !.timers = @ \cup {from.nextTimerId},
                          !.nextTimerId = @ + 1]

togglePlayPause(ps) ==
    IF ps.isPlaying THEN pausePlayback(ps) ELSE startPlayback(ps)

\* mutant of IntervalCallback: the JSON page does not pull the index back
IntervalCallbackNoClamp(ps) ==
    IF ps.kind = "binary"
    THEN LET nextFrame == ps.currentFrameIndex + 1
         IN  IF nextFrame >= ps.totalFrames
             THEN updateDisplay(pausePlayback(ps), ps.totalFrames - 1)
             ELSE updateDisplay(ps, nextFrame)
    ELSE LET stepped == [ps EXCEPT !.currentFrameIndex = @ + 1]
         IN  IF stepped.currentFrameIndex >= stepped.totalFrames
             THEN pausePlayback(stepped)
             ELSE stepped

\* mutant of IntervalCallback: the last frame is shown without pausing
IntervalCallbackNoPause(ps) ==
    IF ps.kind = "binary"
    THEN LET nextFrame == ps.currentFrameIndex + 1
         IN  IF nextFrame >= ps.totalFrames
             THEN updateDisplay(ps, ps.totalFrames - 1)
             ELSE updateDisplay(ps, nextFrame)
    ELSE LET stepped == [ps EXCEPT !.currentFrameIndex = @ + 1]
         IN  IF stepped.currentFrameIndex >= stepped.totalFrames
             THEN [stepped EXCEPT !.currentFrameIndex = stepped.totalFrames - 1]
             ELSE stepped

\* the function startPlayback passes to setInterval
IntervalCallback(ps) ==
    IF ps.kind = "binary"
    THEN LET nextFrame == ps.currentFrameIndex + 1
         IN  IF nextFrame >= ps.totalFrames
             THEN updateDisplay(pausePlayback(ps), ps.totalFrames - 1)
             ELSE updateDisplay(ps, nextFrame)
    ELSE LET stepped == [ps EXCEPT !.currentFrameIndex = @ + 1]
         IN  IF stepped.currentFrameIndex >= stepped.totalFrames
             THEN pausePlayback(
                      [stepped EXCEPT !.currentFrameIndex = stepped.totalFrames - 1])
             ELSE stepped

\* rewind() of viewer.js
rewind(ps) ==
    LET paused == pausePlayback(ps)
        targetFrame == Max(0, paused.currentFrameIndex - REWIND_FF_FRAMES)
    IN  updateDisplay(paused, targetFrame)

\* fastForward() of viewer.js
fastForward(ps) ==
    LET paused == pausePlayback(ps)
        targetFrame == Min(paused.totalFrames - 1,
                           paused.currentFrameIndex + REWIND_FF_FRAMES)
    IN  updateDisplay(paused, targetFrame)

\* the value of a decimal digit, -1 for any other character
DigitValue(ch) ==
    CASE ch = "0" -> 0 [] ch = "1" -> 1 [] ch = "2" -> 2 [] ch = "3" -> 3
      [] ch = "4" -> 4 [] ch = "5" -> 5 [] ch = "6" -> 6 [] ch = "7" -> 7
      [] ch = "8" -> 8 [] ch = "9" -> 9 [] OTHER -> -1

\* the value of the leading digits of text, after acc
RECURSIVE LeadingDigits(_, _)
LeadingDigits(text, acc) ==
    IF text = <<>> \/ DigitValue(Head(text)) < 0 THEN acc
    ELSE LeadingDigits(Tail(text), acc * 10 + DigitValue(Head(text)))

\* parseInt(text, 10) of a text given as its characters: an optional sign
\* and the leading digits; NaN when no digit follows the sign
parseInt(text) ==
    LET signed == text # <<>> /\ Head(text) \in {"-", "+"}
        body   == IF signed THEN Tail(text) ELSE text
    IN  IF body = <<>> \/ DigitValue(Head(body)) < 0
        THEN [nan |-> TRUE, v |-> 0]
        ELSE [nan |-> FALSE,
              v |-> IF signed /\ Head(text) = "-"
                    THEN -LeadingDigits(body, 0) ELSE LeadingDigits(body, 0)]

\* contents of the go-to-frame field
GotoTexts ==
    { <<>>, <<"a", "b", "c">>, <<"-">>, <<"-", "5">>, <<"0">>, <<"2">>,
      <<"2", "1">>, <<"2", "2">>, <<"9", "9">>, <<"3", ".", "7">>,
      <<"1", "e", "2">>, <<"+", "4">> }

\* gotoFrame() of viewer.js with the field holding text
gotoFrame(ps, text) ==
    LET paused == pausePlayback(ps)
        targetFrame == parseInt(text)
    IN  IF ~targetFrame.nan
        THEN updateDisplay(paused, clamp(targetFrame.v, 0, paused.totalFrames - 1))
        ELSE paused

\* a user action is possible
MayAct == page.kind # "none" /\ userActions < MaxUserActions

\* click on Play / Pause
clickPlayPause ==
    /\ MayAct /\ ~page.disabled.play
    /\ page' = togglePlayPause(page)
    /\ userActions' = userActions + 1
    /\ UNCHANGED notPageVars

\* click on Reset
clickReset ==
    /\ MayAct /\ ~page.disabled.reset
    /\ page' = resetPlayback(page)
    /\ userActions' = userActions + 1
    /\ UNCHANGED notPageVars

\* click on Rewind
clickRewind ==
    /\ MayAct /\ ~page.disabled.rewind
    /\ page' = rewind(page)
    /\ userActions' = userActions + 1
    /\ UNCHANGED notPageVars

\* click on Fast Forward
clickFastForward ==
    /\ MayAct /\ ~page.disabled.ff
    /\ page' = fastForward(page)
    /\ userActions' = userActions + 1
    /\ UNCHANGED notPageVars

\* click on Go, or Enter in the go-to-frame field
submitGotoFrame ==
    /\ MayAct /\ (~page.disabled.goto \/ ~page.disabled.input)
    /\ \E text \in GotoTexts : page' = gotoFrame(page, text)
    /\ userActions' = userActions + 1
    /\ UNCHANGED notPageVars

\* an active interval timer fires
timerFires ==
    /\ page.kind # "none"
    /\ \E id \in page.timers : page' = IntervalCallback(page)
    /\ UNCHANGED <<userActions, notPageVars>>

InitPlay ==
    /\ ToolsIdle /\ FnIdle /\ RayIdle /\ RecInit
    /\ userActions = 0
    /\ \E kind \in {"binary", "json"}, frames \in 0..MaxFrames :
           page = LoadedPage(kind, frames)

NextPlay ==
    \/ clickPlayPause
    \/ clickReset
    \/ clickRewind
    \/ clickFastForward
    \/ submitGotoFrame
    \/ timerFires

SpecPlay == InitPlay /\ [][NextPlay]_vars

\* the browser keeps firing an active interval timer
SpecPlayFair == SpecPlay /\ WF_vars(timerFires)

----------------------------------------------------------------------------
(* Claims about the playback controls *)

\* a page with at least one frame is open
FramesLoaded == page.kind # "none" /\ page.totalFrames >= 1

\* C28: with at least one frame loaded, after any interleaving of play/pause,
\* reset, rewind, fast-forward, go-to-frame (any text in the field) and timer
\* callbacks, the current frame index is in [0, totalFrames - 1].
C28_IndexInRange ==
    FramesLoaded =>
        /\ page.currentFrameIndex >= 0
        /\ page.currentFrameIndex <= page.totalFrames - 1

\* playback was started, ran to the last frame of a long recording and
\* stopped there, with user actions before it
C28_Witness ==
    /\ FramesLoaded
    /\ page.totalFrames = MaxFrames
    /\ page.currentFrameIndex = page.totalFrames - 1
    /\ page.nextTimerId > 1
    /\ ~page.isPlaying
    /\ userActions >= 2

\* isPlaying agrees with the timer table: playing means exactly the timer
\* named by intervalId is active, paused means none is
TimerMatchesFlag ==
    page.kind # "none" =>
        /\ page.isPlaying <=> page.intervalId # 0
        /\ Cardinality(page.timers) <= 1
        /\ page.isPlaying => page.timers = {page.intervalId}
        /\ ~page.isPlaying => page.timers = {}

\* a step of reset, rewind, fast-forward or go-to-frame ends paused
SeekLeavesPaused ==
    (clickReset \/ clickRewind \/ clickFastForward \/ submitGotoFrame) =>
        /\ ~page'.isPlaying
        /\ page'.intervalId = 0
        /\ page'.timers = {}

\* C29: after any interleaving of user actions and timer callbacks,
\* isPlaying is true iff an interval timer is registered (intervalId
\* non-null), at most one playback timer is ever active, and rewind,
\* fast-forward, go-to-frame and reset each leave playback paused.
C29_TimerUnique == []TimerMatchesFlag /\ [][SeekLeavesPaused]_vars

\* a second playback is running, on the second timer alone, part way
\* through the frames
C29_Witness ==
    /\ FramesLoaded
    /\ page.isPlaying
    /\ page.intervalId = 2
    /\ page.timers = {2}
    /\ page.currentFrameIndex > 0
    /\ userActions >= 3

\* a seek has interrupted a running playback: paused, no timer left, the
\* index moved by REWIND_FF_FRAMES
C29_SeekWitness ==
    /\ FramesLoaded
    /\ ~page.isPlaying
    /\ page.timers = {}
    /\ page.nextTimerId = 2
    /\ page.currentFrameIndex >= REWIND_FF_FRAMES
    /\ page.currentFrameIndex < page.totalFrames - 1
    /\ userActions = 2

\* a firing before the last frame shows the next frame and playback goes on;
\* a firing at the last frame pauses there and clears the timer
FiringAdvances ==
    timerFires =>
        IF page.currentFrameIndex < page.totalFrames - 1
        THEN /\ page'.currentFrameIndex = page.currentFrameIndex + 1
             /\ page'.isPlaying
             /\ page'.timers = page.timers
        ELSE /\ page'.currentFrameIndex = page.totalFrames - 1
             /\ ~page'.isPlaying
             /\ page'.intervalId = 0
             /\ page'.timers = {}

\* playback is running and the user does nothing more
PlayingUnattended ==
    FramesLoaded /\ page.isPlaying /\ userActions = MaxUserActions

\* playback has paused by itself on the last frame
PausedAtLastFrame ==
    /\ FramesLoaded
    /\ ~page.isPlaying
    /\ page.intervalId = 0
    /\ page.timers = {}
    /\ page.currentFrameIndex = page.totalFrames - 1

\* C30: once playback is started and no further user action occurs, each
\* timer firing advances the frame index by one until the last frame is
\* shown, and eventually playback pauses by itself (isPlaying false, timer
\* cleared) with the current frame index equal to totalFrames - 1.
C30_PlaybackTerminates ==
    /\ [][FiringAdvances]_vars
    /\ PlayingUnattended ~> PausedAtLastFrame

\* the JSON page's playback, started by the user's last action, has run out
\* on the last of several frames
C30_Witness ==
    /\ PausedAtLastFrame
    /\ page.kind = "json"
    /\ page.totalFrames >= 3
    /\ page.nextTimerId > 1
    /\ userActions = MaxUserActions


====
